---- MODULE Spec2Model ----
(***************************************************************************)
(* UndercoverNet: the DNS wire codec and local DNS server of               *)
(* src/dns_handler.py and the padding engine of src/padding_handler.py.    *)
(*                                                                         *)
(* The specifications share the variables below:                          *)
(*   SpecCodec    the pure DNS codec applied to bounded inputs             *)
(*   SpecResolve  one call of the DoH resolver on every reply              *)
(*   SpecDns      the UDP listener, its per-datagram units and backends    *)
(*   SpecDnsLive  SpecDns with the event loop's fairness                   *)
(*   SpecDnsStop  SpecDnsLive with the listener tasks run when ready       *)
(*   SpecDnsLife  the start calls of the DNS service, failing or not, and  *)
(*                stop, in any order                                       *)
(*   SpecPad      the padding engine: its loops and packet processing      *)
(*   SpecPadLife  start, start_advanced and stop of the engine in any      *)
(*                order                                                    *)
(*   SpecStats    a status reader beside the intercept thread              *)
(*   SpecBurst    one BurstDetector called at chosen times                 *)
(*   SpecSelect   one call of the cover-pattern selection on chosen draws  *)
(*   SpecCover    one advanced dummy-traffic task, burst by burst          *)
(* A specification leaves the variables of the other parts unchanged.      *)
(***************************************************************************)
EXTENDS Integers, Sequences, FiniteSets, TLC

VARIABLES
    \* ---- codec harness (SpecCodec)
    c_pc,        \* "input" | "parsed" | "built"
    c_data,      \* the raw query buffer handed to the codec
    c_ips,       \* the answer list handed to _build_dns_response
    c_type,      \* the record type handed to _build_dns_response
    c_parsed,    \* result of _parse_dns_query(c_data)
    c_resp,      \* result of _build_dns_response
    \* ---- one call of _resolve_via_doh (SpecResolve)
    r_pc,        \* "idle" | "call" | "request" (at the await of session.get) | "done"
    r_in,        \* the call's inputs: self.session, the query type, the server's reply
    r_out,       \* the HTTP requests made, what the call raised, what it returned
    \* ---- DNSHandler (SpecDns)
    d_running,   \* self.running
    d_tor_mode,  \* self.tor_mode
    d_session,   \* self.session: "none" (None) | "open"
    d_provider,  \* self.current_provider
    d_proxy,     \* self.proxy_settings is set
    d_sock,      \* self.dns_socket: 0 (no such attribute yet) or the socket's number;
                 \* a socket whose bind failed has the number Unbound
    d_open,      \* the sockets that are not closed
    d_call,      \* the caller's position: "idle" | "stopping" (inside stop(), at its await)
    d_loops,     \* the _dns_server_loop tasks, one per socket created
    d_units,     \* the _handle_dns_query tasks
    d_last,      \* the latest start call and what it raised
    \* ---- PaddingHandler (SpecPad)
    p_platform,  \* the interception the host offers: "Windows" | "Linux" | "other"
    p_running,   \* self.running
    p_advanced,  \* self.advanced_mode
    p_stats,     \* self.stats
    p_snap,      \* the dictionary a status reader got from get_stats
    p_call,      \* the caller's position: "idle", or where stop() is suspended
    p_tasks,     \* the dummy-traffic and timing tasks created by each start call
    p_thread,    \* self.intercept_thread
    p_handle,    \* self.packet_interceptor: "none" (None) | "made" | "open" | "closed"
    p_starts,    \* start calls so far
    \* ---- BurstDetector (SpecBurst)
    b_cfg,       \* the constructor's window_size and threshold
    b_times,     \* self.packet_times
    b_now,       \* what time.time() returns, in ticks
    b_ret,       \* what the latest detect_burst returned
    b_calls,     \* the times of all calls of detect_burst so far
    \* ---- one call of _select_traffic_pattern (SpecSelect)
    s_pc,        \* "idle" | "draw" | "done"
    s_rand,      \* the value of random.random()
    s_pick,      \* the pattern returned, and whether by the fall-back
    \* ---- one _generate_advanced_dummy_traffic task (SpecCover)
    a_pc,        \* "idle" | "ready" | "send" | "gap" | "pause" | "done"
    a_running,   \* self.running
    a_burst,     \* the burst under way: its pattern, burst_size, the packets attempted,
                 \* and the size and destination of the latest of them
    a_sock,      \* the socket of the latest _send_dummy_packet: "none" | "open" | "closed"
    a_sent       \* self.stats['dummy_packets_sent']

resolveVars == <<r_pc, r_in, r_out>>
detVars == <<b_cfg, b_times, b_now, b_ret, b_calls>>
selVars == <<s_pc, s_rand, s_pick>>
coverVars == <<a_pc, a_running, a_burst, a_sock, a_sent>>
codecVars == <<c_pc, c_data, c_ips, c_type, c_parsed, c_resp, resolveVars, detVars, selVars,
              coverVars>>
dnsVars == <<d_running, d_tor_mode, d_session, d_provider, d_proxy, d_sock, d_open,
             d_call, d_loops, d_units, d_last>>
padVars == <<p_platform, p_running, p_advanced, p_stats, p_snap, p_call, p_tasks, p_thread,
             p_handle, p_starts>>
vars == <<codecVars, dnsVars, padVars>>

(***************************************************************************)
(* Bounds of the model.                                                    *)
(***************************************************************************)
MaxLabels == 2      \* labels per generated question name
MaxAnswers == 2     \* entries per answer list
MaxStarts == 1      \* start calls in one run of the server (SpecDns)
MaxSockets == 2     \* listening sockets bound by one DNSHandler (SpecDnsLife)
MaxUnits == 2       \* datagrams received by one DNSHandler
MaxPadStarts == 1   \* start calls in one run of the padding engine (SpecPad)
MaxPadCalls == 2    \* start calls on one PaddingHandler (SpecPadLife)
MaxBurst == 2       \* dummy packets per cycle
MaxDummySent == 2   \* cap of the dummy_packets_sent counter
MaxCoverSent == 2   \* the same cap for the task of SpecCover
MaxPackets == 2     \* cap of the packets_padded counter
MaxChecks == 6      \* calls of detect_burst on one BurstDetector

(***************************************************************************)
(* Constants of the program.                                               *)
(***************************************************************************)
target_packet_size == 512     \* self.target_packet_size

(***************************************************************************)
(* Byte helpers: Python's struct.pack and bytearray operations.            *)
(***************************************************************************)
Min(a, b) == IF a < b THEN a ELSE b

RECURSIVE Concat(_)
Concat(ss) == IF ss = <<>> THEN <<>> ELSE Head(ss) \o Concat(Tail(ss))

Fill(n, b) == [i \in 1..n |-> b]

\* struct.pack('>H', n)
PackH(n) == <<(n \div 256) % 256, n % 256>>

\* mutant: the four bytes in little-endian order
PackILittle(n) == <<n % 256, (n \div 256) % 256, (n \div 65536) % 256, (n \div 16777216) % 256>>

\* struct.pack('>I', n)
PackI(n) == <<(n \div 16777216) % 256, (n \div 65536) % 256, (n \div 256) % 256, n % 256>>

\* mutant: the two bytes read in little-endian order
UnpackHLittle(b) == b[2] * 256 + b[1]

\* struct.unpack('>H', b)[0]
UnpackH(b) == b[1] * 256 + b[2]

\* mutant: the RD bit (0x01) set in place of the QR bit
Or80WrongBit(b) == IF b % 2 = 1 THEN b ELSE b + 1

\* b | 0x80 on one byte
Or80(b) == IF (b \div 128) % 2 = 1 THEN b ELSE b + 128

\* mutant: the bytes are inserted at lo, and nothing is replaced
SliceInsert(r, lo, hi, x) ==
    LET a == Min(lo, Len(r)) IN SubSeq(r, 1, a) \o x \o SubSeq(r, a + 1, Len(r))

\* bytearray slice assignment r[lo:hi] = x (0-based, hi exclusive): Python clamps
\* both ends to len(r), so on a short buffer the bytes are inserted at the end.
SliceAssign(r, lo, hi, x) ==
    LET n == Len(r)
        a == Min(lo, n)
        b == IF Min(hi, n) < a THEN a ELSE Min(hi, n)
    IN SubSeq(r, 1, a) \o x \o SubSeq(r, b + 1, n)

(***************************************************************************)
(* bytes.decode('utf-8'): the code points, or failure (UnicodeDecodeError).*)
(***************************************************************************)
IsCont(b) == b >= 128 /\ b <= 191

\* Decoding from index i on: the ASCII run up to the next byte >= 0x80 is taken
\* as it is, then one multi-byte sequence is decoded.
RECURSIVE Utf8Decode(_, _, _)
Utf8Decode(b, i, acc) ==
    LET high == {j \in i..Len(b) : b[j] >= 128} IN
    IF high = {} THEN [ok |-> TRUE, chars |-> acc \o SubSeq(b, i, Len(b))]
    ELSE LET k == CHOOSE j \in high : \A j2 \in high : j <= j2
             pre == acc \o SubSeq(b, i, k - 1)
             b0 == b[k]
             has(n) == k + n <= Len(b) /\ \A j \in 1..n : IsCont(b[k + j])
             bad == [ok |-> FALSE, chars |-> <<>>]
         IN  IF b0 >= 194 /\ b0 <= 223
             THEN IF has(1)
                  THEN Utf8Decode(b, k + 2, Append(pre, (b0 - 192) * 64 + (b[k + 1] - 128)))
                  ELSE bad
             ELSE IF b0 >= 224 /\ b0 <= 239
             THEN IF has(2) /\ (b0 = 224 => b[k + 1] >= 160) /\ (b0 = 237 => b[k + 1] <= 159)
                  THEN Utf8Decode(b, k + 3, Append(pre,
                           (b0 - 224) * 4096 + (b[k + 1] - 128) * 64 + (b[k + 2] - 128)))
                  ELSE bad
             ELSE IF b0 >= 240 /\ b0 <= 244
             THEN IF has(3) /\ (b0 = 240 => b[k + 1] >= 144) /\ (b0 = 244 => b[k + 1] <= 143)
                  THEN Utf8Decode(b, k + 4, Append(pre,
                           (b0 - 240) * 262144 + (b[k + 1] - 128) * 4096
                           + (b[k + 2] - 128) * 64 + (b[k + 3] - 128)))
                  ELSE bad
             ELSE bad

\* '.'.join(parts) on strings held as sequences of code points ('.' is 46)
RECURSIVE JoinDot(_)
JoinDot(parts) ==
    IF parts = <<>> THEN <<>>
    ELSE IF Len(parts) = 1 THEN parts[1]
    ELSE parts[1] \o <<46>> \o JoinDot(Tail(parts))

(***************************************************************************)
(* DNSHandler._parse_dns_query                                             *)
(***************************************************************************)
\* the value None of an Optional[Tuple[str, int]]
ParseNone == [ok |-> FALSE, domain |-> <<>>, qtype |-> 0]

\* The label loop, lines 288-302. offset is the code's 0-based offset.
\* st: "exit" (the while loop ended), "none" (return None or an exception).
\* mutant: the label loop without the length > 63 test
RECURSIVE ParseLabelsNoLimit(_, _, _)
ParseLabelsNoLimit(data, offset, parts) ==
    IF ~(offset < Len(data)) THEN [st |-> "exit", offset |-> offset, parts |-> parts]
    ELSE LET length == data[offset + 1] IN
         IF length = 0 THEN [st |-> "exit", offset |-> offset + 1, parts |-> parts]
         ELSE IF offset + 1 + length > Len(data)
              THEN [st |-> "none", offset |-> offset + 1, parts |-> parts]
         ELSE LET dec == Utf8Decode(SubSeq(data, offset + 2, offset + 1 + length), 1, <<>>) IN
              IF ~dec.ok THEN [st |-> "none", offset |-> offset + 1, parts |-> parts]
              ELSE ParseLabelsNoLimit(data, offset + 1 + length, Append(parts, dec.chars))

RECURSIVE ParseLabels(_, _, _)
ParseLabels(data, offset, parts) ==
    IF ~(offset < Len(data)) THEN [st |-> "exit", offset |-> offset, parts |-> parts]
    ELSE LET length == data[offset + 1] IN
         IF length = 0 THEN [st |-> "exit", offset |-> offset + 1, parts |-> parts]
         ELSE IF length > 63 THEN [st |-> "none", offset |-> offset, parts |-> parts]
         ELSE IF offset + 1 + length > Len(data)
              THEN [st |-> "none", offset |-> offset + 1, parts |-> parts]
         ELSE LET dec == Utf8Decode(SubSeq(data, offset + 2, offset + 1 + length), 1, <<>>) IN
              IF ~dec.ok THEN [st |-> "none", offset |-> offset + 1, parts |-> parts]
              ELSE ParseLabels(data, offset + 1 + length, Append(parts, dec.chars))

_parse_dns_query(data) ==
    IF Len(data) < 12 THEN ParseNone
    ELSE LET r == ParseLabels(data, 12, <<>>) IN
         IF r.st = "none" THEN ParseNone
         ELSE IF r.parts = <<>> THEN ParseNone
         ELSE IF r.offset + 2 <= Len(data)
              THEN [ok |-> TRUE, domain |-> JoinDot(r.parts),
                    qtype |-> UnpackH(SubSeq(data, r.offset + 1, r.offset + 2))]
              ELSE ParseNone

(***************************************************************************)
(* socket.inet_aton / socket.inet_pton(AF_INET6, .): the C library's       *)
(* conversions, given by their values on the address literals the model    *)
(* draws answers from; every other literal raises OSError.                 *)
(***************************************************************************)
AddrNone == <<>>

inet_aton(ip) ==
    CASE ip = "93.184.216.34" -> <<93, 184, 216, 34>>
      [] ip = "10.0.0.1"      -> <<10, 0, 0, 1>>
      [] OTHER                -> AddrNone

inet_pton6(ip) ==
    CASE ip = "::1"         -> Fill(15, 0) \o <<1>>
      [] ip = "2001:db8::2" -> <<32, 1, 13, 184>> \o Fill(11, 0) \o <<2>>
      [] OTHER              -> AddrNone

(***************************************************************************)
(* DNSHandler._build_a_record, _build_aaaa_record, _build_dns_response     *)
(***************************************************************************)
TTL == 300

\* mutant: the address bytes in host (little-endian) order
_build_a_record_hostorder(ip) ==
    LET ip_bytes == inet_aton(ip) IN
    IF ip_bytes = AddrNone THEN <<>>
    ELSE <<192, 12>> \o PackH(1) \o PackH(1) \o PackI(TTL) \o PackH(4)
         \o <<ip_bytes[4], ip_bytes[3], ip_bytes[2], ip_bytes[1]>>

_build_a_record(ip) ==
    LET ip_bytes == inet_aton(ip) IN
    IF ip_bytes = AddrNone THEN <<>>      \* except Exception: return b''
    ELSE <<192, 12>> \o PackH(1) \o PackH(1) \o PackI(TTL) \o PackH(4) \o ip_bytes

_build_aaaa_record(ip) ==
    LET ip_bytes == inet_pton6(ip) IN
    IF ip_bytes = AddrNone THEN <<>>      \* except Exception: return b''
    ELSE <<192, 12>> \o PackH(28) \o PackH(1) \o PackI(TTL) \o PackH(16) \o ip_bytes

\* the record one answer contributes, lines 438-442
AnswerRecord(ip, query_type) ==
    IF query_type = 1 THEN _build_a_record(ip)
    ELSE IF query_type = 28 THEN _build_aaaa_record(ip)
    ELSE <<>>

RECURSIVE AnswerRecords(_, _)
AnswerRecords(ips, query_type) ==
    IF ips = <<>> THEN <<>>
    ELSE AnswerRecord(Head(ips), query_type) \o AnswerRecords(Tail(ips), query_type)

\* the value written to bytes 6-7, line 434
AnswerCount(ips) == Len(ips)

\* mutant: an answer that cannot be encoded makes the whole call fall back
_build_dns_response_fatal(original_query, ips, query_type) ==
    IF Len(original_query) < 3 THEN original_query
    ELSE IF AnswerCount(ips) > 65535 THEN original_query
    ELSE IF \E i \in 1..Len(ips) : AnswerRecord(ips[i], query_type) = <<>> THEN original_query
    ELSE LET flagged == [original_query EXCEPT ![3] = Or80(@)]
             counted == SliceAssign(flagged, 6, 8, PackH(AnswerCount(ips)))
         IN counted \o AnswerRecords(ips, query_type)

_build_dns_response(original_query, ips, query_type) ==
    IF Len(original_query) < 3 THEN original_query          \* IndexError at response[2]
    ELSE IF AnswerCount(ips) > 65535 THEN original_query    \* struct.error
    ELSE LET flagged == [original_query EXCEPT ![3] = Or80(@)]
             counted == SliceAssign(flagged, 6, 8, PackH(AnswerCount(ips)))
         IN counted \o AnswerRecords(ips, query_type)

(***************************************************************************)
(* Bounded inputs of the codec.                                            *)
(***************************************************************************)
RECURSIVE SeqsUpTo(_, _)
SeqsUpTo(S, n) ==
    IF n = 0 THEN {<<>>}
    ELSE LET shorter == SeqsUpTo(S, n - 1) IN
         shorter \cup {Append(s, x) : s \in {t \in shorter : Len(t) = n - 1}, x \in S}

\* two headers: a plain recursive query with id 0x1234, and one whose QR bit and
\* answer count are already set
Headers == { <<18, 52, 1, 0, 0, 1, 0, 0, 0, 0, 0, 0>>,
             <<255, 0, 129, 128, 0, 1, 0, 9, 0, 0, 0, 0>> }

L_example == <<7, 101, 120, 97, 109, 112, 108, 101>>
L_com == <<3, 99, 111, 109>>
L_Ab == <<2, 65, 98>>                   \* a label with an upper-case letter
L_63 == <<63>> \o Fill(63, 120)         \* the longest label
L_64 == <<64>> \o Fill(64, 120)         \* a length byte over 63
L_ptr == <<192, 12>>                    \* a compression pointer
L_over == <<5, 97>>                     \* a length that overruns what follows
L_badutf == <<1, 255>>                  \* not UTF-8
L_utf2 == <<2, 195, 169>>               \* U+00E9 in two bytes

GoodLabels == {L_example, L_com, L_Ab, L_63, L_utf2}
LabelParts == GoodLabels \cup {L_64, L_ptr, L_over, L_badutf}

\* what follows the labels: the terminator and QTYPE, QCLASS (or less)
TypedTails == { <<0, 0, 1, 0, 1>>, <<0, 0, 28, 0, 1>>, <<0, 0, 15, 0, 1>> }
Tails == TypedTails \cup { <<>>, <<0>>, <<0, 0>> }

ShortBuffers == { SubSeq(<<18, 52, 1, 0, 0, 1, 0, 0, 0, 0, 0>>, 1, n) : n \in {0, 2, 3, 5, 6, 7, 11} }

\* the buffers _parse_dns_query is applied to
Buffers ==
    ShortBuffers \cup
    { h \o Concat(ls) \o t : h \in Headers, ls \in SeqsUpTo(LabelParts, MaxLabels), t \in Tails }

\* the buffers _build_dns_response is applied to
BuildBuffers ==
    ShortBuffers \cup
    { h \o Concat(ls) \o t : h \in Headers,
                             ls \in {<<L_example, L_com>>, <<L_Ab>>, <<L_63>>, <<>>},
                             t \in TypedTails }

Addrs == {"93.184.216.34", "10.0.0.1", "::1", "2001:db8::2", "not-an-ip"}
AnswerLists == SeqsUpTo(Addrs, MaxAnswers)
QueryTypes == {1, 28, 15}

(***************************************************************************)
(* DNSHandler: the state after __init__, lines 25-50.                      *)
(***************************************************************************)
Units == 1..MaxUnits
Socks == 1..MaxSockets
Unbound == 0 - 1
NoCall == [call |-> "none", raised |-> "none"]

doh_servers == {"cloudflare", "google", "quad9", "adguard"}

\* a _handle_dns_query task. st: "free" (not created), "spawned" (created, not yet
\* run), "waiting" (at the await of its backend), and its ends "dropped" (returned
\* without sending), "sent", "error" (ended in its except clause).
\* q: its local query_info, set by the parse of line 243.
\* out: the datagrams it handed to sock_sendto with success.
\* late: some task had already ended in "error" when this datagram was received.
FreeUnit == [st |-> "free", data |-> <<>>, addr |-> "", q |-> ParseNone, backend |-> "none",
             res |-> "pending", ips |-> <<>>, out |-> <<>>, late |-> FALSE]
NoLoop == [pc |-> "none", sock |-> 0]

DnsIdle ==
    /\ d_running = FALSE
    /\ d_tor_mode = FALSE
    /\ d_session = "none"
    /\ d_provider = "cloudflare"
    /\ d_proxy = FALSE
    /\ d_sock = 0
    /\ d_open = {}
    /\ d_call = "idle"
    /\ d_loops = [l \in Socks |-> NoLoop]
    /\ d_units = [u \in Units |-> FreeUnit]
    /\ d_last = NoCall

(***************************************************************************)
(* What the environment hands to the server.                               *)
(***************************************************************************)
QueryExampleComA == <<18, 52, 1, 0, 0, 1, 0, 0, 0, 0, 0, 0>> \o L_example \o L_com \o <<0, 0, 1, 0, 1>>
QueryAbComAAAA == <<255, 0, 129, 128, 0, 1, 0, 9, 0, 0, 0, 0>> \o L_Ab \o L_com \o <<0, 0, 28, 0, 1>>
QueryExampleComMX == <<18, 52, 1, 0, 0, 1, 0, 0, 0, 0, 0, 0>> \o L_example \o L_com \o <<0, 0, 15, 0, 1>>
QueryCompressed == <<18, 52, 1, 0, 0, 1, 0, 0, 0, 0, 0, 0>> \o L_ptr \o <<0, 0, 1, 0, 1>>

Datagrams == { [data |-> QueryExampleComA, addr |-> "client1"],
               [data |-> QueryAbComAAAA, addr |-> "client2"],
               [data |-> QueryExampleComMX, addr |-> "client1"],
               [data |-> QueryCompressed, addr |-> "client2"] }

\* the entries of a DNS-JSON "Answer" array
DohEntries == { [type |-> 1, data |-> "93.184.216.34"],
                [type |-> 1, data |-> "10.0.0.1"],
                [type |-> 28, data |-> "::1"],
                [type |-> 15, data |-> "10 mail.example.com."] }

\* the outcomes of session.get(...): an exception (network error, timeout, JSON
\* decode failure), or a status with the "Answer" array of the body
DohReplies ==
    { [kind |-> "error", status |-> 0, answer |-> <<>>],
      [kind |-> "http", status |-> 503, answer |-> <<>>] }
    \cup { [kind |-> "http", status |-> 200, answer |-> a] : a \in SeqsUpTo(DohEntries, MaxAnswers) }

\* the outcomes of loop.getaddrinfo(domain, None, family): an exception, or the
\* addresses of that family (getaddrinfo never returns an empty list)
TorReplies(query_type) ==
    LET fam == IF query_type = 1 THEN {"93.184.216.34", "10.0.0.1"} ELSE {"::1"} IN
    { [kind |-> "error", ips |-> <<>>] }
    \cup { [kind |-> "ok", ips |-> a] : a \in SeqsUpTo(fam, MaxAnswers) \ {<<>>} }

(***************************************************************************)
(* start_doh, start_tor_dns, stop                                          *)
(***************************************************************************)
SocketsMade == Cardinality({l \in Socks : d_loops[l].pc # "none"})

\* where the environment lets a start call fail: nowhere, at bind() (line 202), or
\* in _configure_system_dns (lines 508-530)
Outcomes == {"ok", "bind", "config"}

\* the provider names start_doh is called with; "opendns" is not in the registry
Providers == {"google", "opendns"}

\* what the call raised
Raised(outcome) ==
    CASE outcome = "ok" -> "none"
      [] outcome = "bind" -> "OSError"
      [] outcome = "config" -> "ConfigError"

Called(name, raised) == [call |-> name, raised |-> raised]

\* mutant: the listener task is created before the socket is bound
StartLocalDnsServerTaskFirst(outcome) ==
    LET k == SocketsMade + 1 IN
    /\ d_sock' = IF outcome = "bind" THEN Unbound ELSE k
    /\ d_open' = d_open \cup {d_sock'}
    /\ d_loops' = [d_loops EXCEPT ![k] = [pc |-> "ready", sock |-> 0]]

\* _start_local_dns_server, lines 196-212: a new socket in self.dns_socket; if
\* bind() raises, the socket stays as it is and the exception is raised again;
\* else a new _dns_server_loop task, which first runs when the caller next suspends
StartLocalDnsServer(outcome) ==
    IF outcome = "bind"
    THEN /\ d_sock' = Unbound
         /\ d_open' = d_open \cup {Unbound}
         /\ UNCHANGED d_loops
    ELSE LET k == SocketsMade + 1 IN
         /\ d_sock' = k
         /\ d_open' = d_open \cup {k}
         /\ d_loops' = [d_loops EXCEPT ![k] = [pc |-> "ready", sock |-> 0]]

\* mutant: the provider is stored before it is looked up
StartDohAssignFirst(provider, outcome) ==
    /\ d_call = "idle"
    /\ SocketsMade < MaxSockets
    /\ IF provider \notin doh_servers
       THEN /\ outcome = "ok"
            /\ d_provider' = provider
            /\ d_last' = Called("start_doh", "ValueError")
            /\ UNCHANGED <<d_running, d_session, d_sock, d_open, d_loops>>
       ELSE /\ d_provider' = provider
            /\ d_session' = "open"
            /\ StartLocalDnsServer(outcome)
            /\ d_running' = (d_running \/ outcome = "ok")
            /\ d_last' = Called("start_doh", Raised(outcome))
    /\ UNCHANGED <<codecVars, padVars, d_tor_mode, d_proxy, d_call, d_units>>

\* start_doh(provider), lines 52-91: ValueError for a name that is not in the
\* registry, before anything is stored; self.running is set last
StartDoh(provider, outcome) ==
    /\ d_call = "idle"
    /\ SocketsMade < MaxSockets
    /\ IF provider \notin doh_servers
       THEN /\ outcome = "ok"
            /\ d_last' = Called("start_doh", "ValueError")
            /\ UNCHANGED <<d_running, d_session, d_provider, d_sock, d_open, d_loops>>
       ELSE /\ d_provider' = provider
            /\ d_session' = "open"
            /\ StartLocalDnsServer(outcome)
            /\ d_running' = (d_running \/ outcome = "ok")
            /\ d_last' = Called("start_doh", Raised(outcome))
    /\ UNCHANGED <<codecVars, padVars, d_tor_mode, d_proxy, d_call, d_units>>

\* start_doh_with_proxy(proxy_port), lines 93-132
StartDohWithProxy(outcome) ==
    /\ d_call = "idle"
    /\ SocketsMade < MaxSockets
    /\ d_proxy' = TRUE
    /\ d_session' = "open"
    /\ StartLocalDnsServer(outcome)
    /\ d_running' = (d_running \/ outcome = "ok")
    /\ d_last' = Called("start_doh_with_proxy", Raised(outcome))
    /\ UNCHANGED <<codecVars, padVars, d_tor_mode, d_provider, d_call, d_units>>

\* start_tor_dns(), lines 134-153
StartTorDns(outcome) ==
    /\ d_call = "idle"
    /\ SocketsMade < MaxSockets
    /\ d_tor_mode' = TRUE
    /\ StartLocalDnsServer(outcome)
    /\ d_running' = (d_running \/ outcome = "ok")
    /\ d_last' = Called("start_tor_dns", Raised(outcome))
    /\ UNCHANGED <<codecVars, padVars, d_session, d_provider, d_proxy, d_call, d_units>>

\* self.dns_socket.close(), lines 545-546
CloseDnsSocket == d_open' = d_open \ {d_sock}

\* stop(), lines 536-541: the run flag is cleared; with a session, stop() then
\* awaits session.close() and other tasks may run before it goes on
StopBegin ==
    /\ d_call = "idle"
    /\ d_running' = FALSE
    /\ IF d_session = "open"
       THEN d_call' = "stopping" /\ UNCHANGED d_open
       ELSE d_call' = "idle" /\ CloseDnsSocket
    /\ UNCHANGED <<codecVars, padVars, d_tor_mode, d_session, d_provider, d_proxy, d_sock, d_loops, d_units, d_last>>

\* stop(), lines 542-549: after session.close()
StopFinish ==
    /\ d_call = "stopping"
    /\ d_session' = "none"
    /\ CloseDnsSocket
    /\ d_call' = "idle"
    /\ UNCHANGED <<codecVars, padVars, d_running, d_tor_mode, d_provider, d_proxy, d_sock, d_loops, d_units, d_last>>

(***************************************************************************)
(* _dns_server_loop, lines 214-231                                         *)
(***************************************************************************)
\* the top of the while loop up to the await: the run flag is tested and
\* sock_recvfrom is called on the socket self.dns_socket names at that moment
LoopEnter ==
    IF ~d_running THEN [pc |-> "done", sock |-> 0]
    ELSE IF d_sock \in d_open THEN [pc |-> "recv", sock |-> d_sock]
    ELSE [pc |-> "sleep", sock |-> 0]          \* recvfrom on a closed socket raises

\* the task's first step, and its step after asyncio.sleep(0.1)
LoopStep(l) ==
    /\ d_loops[l].pc \in {"ready", "sleep"}
    /\ d_loops' = [d_loops EXCEPT ![l] = LoopEnter]
    /\ UNCHANGED <<codecVars, padVars, d_running, d_tor_mode, d_session, d_provider, d_proxy, d_sock, d_open,
                   d_call, d_units, d_last>>

\* mutant: the loop awaits the handler instead of creating a task for it, and
\* receives again only when no unit is under way
LoopRecvAwaits(l, u, dg) ==
    /\ d_loops[l].pc = "recv"
    /\ d_loops[l].sock \in d_open /\ d_loops[l].sock > 0
    /\ \A v \in Units : d_units[v].st \notin {"spawned", "waiting"}
    /\ d_units[u].st = "free"
    /\ \A v \in Units : v < u => d_units[v].st # "free"
    /\ d_units' = [d_units EXCEPT ![u] = [FreeUnit EXCEPT !.st = "spawned", !.data = dg.data,
                       !.addr = dg.addr,
                       !.late = \E v \in Units : d_units[v].st = "error"]]
    /\ d_loops' = [d_loops EXCEPT ![l] = LoopEnter]
    /\ UNCHANGED <<codecVars, padVars, d_running, d_tor_mode, d_session, d_provider, d_proxy, d_sock, d_open,
                   d_call, d_last>>

\* a datagram arrives: create_task(self._handle_dns_query(data, addr)), line 225,
\* and the loop goes round to its next sock_recvfrom
LoopRecv(l, u, dg) ==
    /\ d_loops[l].pc = "recv"
    /\ d_loops[l].sock \in d_open /\ d_loops[l].sock > 0
    /\ d_units[u].st = "free"
    /\ \A v \in Units : v < u => d_units[v].st # "free"
    /\ d_units' = [d_units EXCEPT ![u] = [FreeUnit EXCEPT !.st = "spawned", !.data = dg.data,
                       !.addr = dg.addr,
                       !.late = \E v \in Units : d_units[v].st = "error"]]
    /\ d_loops' = [d_loops EXCEPT ![l] = LoopEnter]
    /\ UNCHANGED <<codecVars, padVars, d_running, d_tor_mode, d_session, d_provider, d_proxy, d_sock, d_open,
                   d_call, d_last>>

\* sock_recvfrom raises (the socket was closed under it, or the platform reports
\* an error of an earlier send): except Exception, lines 229-231
LoopRecvError(l) ==
    /\ d_loops[l].pc = "recv"
    /\ d_loops' = [d_loops EXCEPT ![l] = [pc |-> "sleep", sock |-> 0]]
    /\ UNCHANGED <<codecVars, padVars, d_running, d_tor_mode, d_session, d_provider, d_proxy, d_sock, d_open,
                   d_call, d_units, d_last>>

\* mutant: every entry of the array is kept
DohFilterAnyType(answer, query_type) ==
    [i \in 1..Len(answer) |-> answer[i].data]

(***************************************************************************)
(* _handle_dns_query, lines 233-267, with _resolve_via_doh (320-374) and   *)
(* _resolve_via_tor (376-411)                                              *)
(***************************************************************************)
\* the filter of lines 359-363
RECURSIVE DohFilter(_, _)
DohFilter(answer, query_type) ==
    IF answer = <<>> THEN <<>>
    ELSE (IF Head(answer).type = query_type THEN <<Head(answer).data>> ELSE <<>>)
         \o DohFilter(Tail(answer), query_type)

\* what _resolve_via_doh returns on a reply: the list, or <<>> for None
DohResult(reply, query_type) ==
    IF reply.kind # "http" THEN <<>>
    ELSE IF reply.status # 200 THEN <<>>
    ELSE DohFilter(reply.answer, query_type)

\* mutant: the test of line 256 left out
TruthyAlways(ips) == TRUE

\* "if response:", line 256
Truthy(ips) == ips # <<>>

\* the first step of the task, to its first await: parse, then call the backend
UnitStart(u) ==
    /\ d_units[u].st = "spawned"
    /\ LET q == _parse_dns_query(d_units[u].data) IN
       d_units' = [d_units EXCEPT ![u] =
           IF ~q.ok THEN [@ EXCEPT !.st = "dropped", !.q = q, !.res = "none"]
           ELSE IF d_tor_mode
           THEN IF q.qtype \in {1, 28}
                THEN [@ EXCEPT !.st = "waiting", !.q = q, !.backend = "tor"]
                ELSE [@ EXCEPT !.st = "dropped", !.q = q, !.backend = "tor", !.res = "none"]
           ELSE IF d_session = "open"
                THEN [@ EXCEPT !.st = "waiting", !.q = q, !.backend = "doh"]
                ELSE [@ EXCEPT !.st = "dropped", !.q = q, !.backend = "doh", !.res = "none"]]
    /\ UNCHANGED <<codecVars, padVars, d_running, d_tor_mode, d_session, d_provider, d_proxy, d_sock, d_open,
                   d_call, d_loops, d_last>>

\* mutant: the exception of a send on a closed socket leaves the handler
AfterResolveEscapes(u, ips, sendOk) ==
    LET q == d_units[u].q
        me == [d_units[u] EXCEPT !.ips = ips, !.res = IF ips = <<>> THEN "none" ELSE "list"]
    IN
    IF ~Truthy(ips)
    THEN d_units' = [d_units EXCEPT ![u] = [me EXCEPT !.st = "dropped"]]
    ELSE IF d_sock \notin d_open
    THEN d_units' = [d_units EXCEPT ![u] = [me EXCEPT !.st = "raised"]]
    ELSE IF ~sendOk
    THEN d_units' = [d_units EXCEPT ![u] = [me EXCEPT !.st = "error"]]
    ELSE d_units' = [d_units EXCEPT ![u] = [me EXCEPT !.st = "sent",
             !.out = Append(@, [to |-> d_units[u].addr, sock |-> d_sock,
                                payload |-> _build_dns_response(d_units[u].data, ips, q.qtype)])]]

\* mutant: the response goes to the address of the datagram received last
AfterResolveLastAddr(u, ips, sendOk) ==
    LET q == d_units[u].q
        me == [d_units[u] EXCEPT !.ips = ips, !.res = IF ips = <<>> THEN "none" ELSE "list"]
        last == CHOOSE v \in Units :
                    /\ d_units[v].st # "free"
                    /\ \A w \in Units : d_units[w].st # "free" => w <= v
    IN
    IF ~Truthy(ips)
    THEN d_units' = [d_units EXCEPT ![u] = [me EXCEPT !.st = "dropped"]]
    ELSE IF d_sock \notin d_open \/ ~sendOk
    THEN d_units' = [d_units EXCEPT ![u] = [me EXCEPT !.st = "error"]]
    ELSE d_units' = [d_units EXCEPT ![u] = [me EXCEPT !.st = "sent",
             !.out = Append(@, [to |-> d_units[last].addr, sock |-> d_sock,
                                payload |-> _build_dns_response(d_units[u].data, ips, q.qtype)])]]

\* lines 256-262 once the backend has returned ips (<<>> for None): nothing on a
\* falsy result; else the response is built and handed to sock_sendto on
\* self.dns_socket, which sends it (sendOk) or raises
AfterResolve(u, ips, sendOk) ==
    LET q == d_units[u].q
        me == [d_units[u] EXCEPT !.ips = ips, !.res = IF ips = <<>> THEN "none" ELSE "list"]
    IN
    IF ~Truthy(ips)
    THEN d_units' = [d_units EXCEPT ![u] = [me EXCEPT !.st = "dropped"]]
    ELSE IF d_sock \notin d_open \/ ~sendOk
    THEN d_units' = [d_units EXCEPT ![u] = [me EXCEPT !.st = "error"]]
    ELSE d_units' = [d_units EXCEPT ![u] = [me EXCEPT !.st = "sent",
             !.out = Append(@, [to |-> d_units[u].addr, sock |-> d_sock,
                                payload |-> _build_dns_response(d_units[u].data, ips, q.qtype)])]]

\* mutant: a failed send makes the handler clear the run flag
UnitDohReplyStops(u, reply, sendOk) ==
    /\ d_units[u].st = "waiting" /\ d_units[u].backend = "doh"
    /\ AfterResolve(u, DohResult(reply, d_units[u].q.qtype), sendOk)
    /\ d_running' = (d_running /\ d_units'[u].st # "error")
    /\ UNCHANGED <<codecVars, padVars, d_tor_mode, d_session, d_provider, d_proxy, d_sock, d_open,
                   d_call, d_loops, d_last>>

\* the DoH request completes
UnitDohReply(u, reply, sendOk) ==
    /\ d_units[u].st = "waiting" /\ d_units[u].backend = "doh"
    /\ AfterResolve(u, DohResult(reply, d_units[u].q.qtype), sendOk)
    /\ UNCHANGED <<codecVars, padVars, d_running, d_tor_mode, d_session, d_provider, d_proxy, d_sock, d_open,
                   d_call, d_loops, d_last>>

\* getaddrinfo completes
UnitTorReply(u, reply, sendOk) ==
    /\ d_units[u].st = "waiting" /\ d_units[u].backend = "tor"
    /\ AfterResolve(u, reply.ips, sendOk)
    /\ UNCHANGED <<codecVars, padVars, d_running, d_tor_mode, d_session, d_provider, d_proxy, d_sock, d_open,
                   d_call, d_loops, d_last>>

\* the steps of one _handle_dns_query task
UnitStep(u) ==
    \/ UnitStart(u)
    \/ \E reply \in DohReplies, sendOk \in BOOLEAN : UnitDohReply(u, reply, sendOk)
    \/ \E reply \in TorReplies(d_units[u].q.qtype), sendOk \in BOOLEAN :
           UnitTorReply(u, reply, sendOk)

UnitNext == \E u \in Units : UnitStep(u)

LoopNext ==
    \E l \in Socks :
        \/ LoopStep(l)
        \/ \E u \in Units, dg \in Datagrams : LoopRecv(l, u, dg)
        \/ LoopRecvError(l)

\* one run of the server: a start that succeeds, and stop
CallNext ==
    \/ SocketsMade < MaxStarts /\ StartDoh("cloudflare", "ok")
    \/ SocketsMade < MaxStarts /\ StartTorDns("ok")
    \/ StopBegin
    \/ StopFinish

(***************************************************************************)
(* PaddingHandler: the state after __init__, lines 54-77.                  *)
(***************************************************************************)
\* platform.system() together with the availability of the interception
\* library, lines 166-171
Platforms == {"Windows", "Linux", "other"}

\* the value None and a bytes value, as returned by _process_packet
None == [some |-> FALSE, data |-> <<>>]
Some(b) == [some |-> TRUE, data |-> b]

\* the start calls of one engine, in order: each creates its own pair of tasks
Gens == 1..MaxPadCalls

\* a periodic task. pc: "none" (no task), "ready" (created, not yet run), "sleep"
\* (at the sleep between two cycles), "sending" (inside _send_dummy_packet, at
\* sock_sendto), "gap" (at the sleep after a dummy packet), "backoff" (at the
\* sleep(1) of the except clause), "done". left: the dummy packets this cycle has
\* still to send. adv: the task runs the advanced coroutine.
NoTask == [pc |-> "none", left |-> 0, adv |-> FALSE]
Ended == [pc |-> "done", left |-> 0, adv |-> FALSE]
Alive(t) == t.pc \notin {"none", "done"}
NoTasks == [dummy |-> NoTask, timing |-> NoTask]

\* self.dummy_traffic_task and self.timing_task: the tasks of the latest start
Tracked == IF p_starts = 0 THEN NoTasks ELSE p_tasks[p_starts]

\* the intercept thread. pc: "none", "start" (thread started, before open()),
\* "recv" (blocked waiting for a packet), "padding" (inside _process_packet,
\* between lines 324 and 325), "delay" (in time.sleep with a padded packet),
\* "forward" (handing on a packet left as it was), "done".
NoThread == [pc |-> "none", pkt |-> <<>>, mod |-> None]
InLoop(th) == th.pc \in {"recv", "padding", "delay", "forward"}

\* self.stats, lines 62-67
ZeroStats == [packets_padded |-> 0, packets_delayed |-> 0,
              dummy_packets_sent |-> 0, bytes_added |-> 0]
Counters == DOMAIN ZeroStats

\* what a status reader holds: nothing yet, or the dictionary get_stats gave it
\* (alias: that dictionary is self.stats itself)
NoSnapshot == [taken |-> FALSE, alias |-> FALSE, val |-> ZeroStats]

PadIdle ==
    /\ p_running = FALSE
    /\ p_advanced = FALSE
    /\ p_stats = ZeroStats
    /\ p_snap = NoSnapshot
    /\ p_call = "idle"
    /\ p_tasks = [g \in Gens |-> NoTasks]
    /\ p_thread = NoThread
    /\ p_handle = "none"
    /\ p_starts = 0

(***************************************************************************)
(* _generate_padding and _process_packet, lines 303-361                    *)
(***************************************************************************)
\* The values random.randint gives to the four random byte classes. The code draws
\* every byte afresh; the model draws one value per class and call, taken from the
\* two ends of each range.
Draws == { [upper |-> 65, lower |-> 97, digit |-> 48, any |-> 1],
           [upper |-> 90, lower |-> 122, digit |-> 57, any |-> 255] }

_generate_padding(size, draw) ==
    [i \in 1..size |->
        LET k == (i - 1) % 8 IN
        CASE k = 0 -> 0
          [] k = 1 -> 32
          [] k = 2 -> draw.upper
          [] k = 3 -> draw.lower
          [] k = 4 -> draw.digit
          [] OTHER -> draw.any]

\* mutant: the size test with > for >=
_process_packet_gt(packet_data, stats, draw) ==
    IF Len(packet_data) > target_packet_size
    THEN [ret |-> None, stats |-> stats]
    ELSE LET padding_needed == target_packet_size - Len(packet_data)
             padding == _generate_padding(padding_needed, draw)
         IN [ret |-> Some(packet_data \o padding),
             stats |-> [stats EXCEPT !.packets_padded = @ + 1,
                                     !.bytes_added = @ + padding_needed]]

\* the value returned and the statistics after the call
_process_packet(packet_data, stats, draw) ==
    IF Len(packet_data) >= target_packet_size
    THEN [ret |-> None, stats |-> stats]
    ELSE LET padding_needed == target_packet_size - Len(packet_data)
             padding == _generate_padding(padding_needed, draw)
         IN [ret |-> Some(packet_data \o padding),
             stats |-> [stats EXCEPT !.packets_padded = @ + 1,
                                     !.bytes_added = @ + padding_needed]]

\* the outbound packets the interception hands to the engine
Payload(n) == [i \in 1..n |-> ((i * 7) % 251) + 1]
PayloadLens == {1, target_packet_size - 1, target_packet_size, target_packet_size + 1}
Payloads == {Payload(n) : n \in PayloadLens}

(***************************************************************************)
(* stop, lines 589-625. A task that is cancelled ends at the await it is   *)
(* in; stop() is suspended meanwhile, and goes on at once past a task that *)
(* is there no more. Only the tasks of the latest start are known to it.   *)
(***************************************************************************)
\* lines 612-616: only the Windows path stores self.packet_interceptor, so on
\* Linux the test of line 612 fails and nfqueue.unbind() is never reached
CloseInterceptor ==
    p_handle' = IF p_platform = "Windows" /\ p_handle # "none" THEN "closed" ELSE p_handle

\* from self.timing_task on, lines 604-616
StopFromTiming ==
    IF Alive(Tracked.timing)
    THEN /\ p_tasks' = [p_tasks EXCEPT ![p_starts].timing = Ended]
         /\ p_call' = "stop_intercept"
         /\ UNCHANGED p_handle
    ELSE /\ CloseInterceptor
         /\ p_call' = "join"
         /\ UNCHANGED p_tasks

\* the flag goes down and the dummy task is cancelled, lines 593-602
StopBody ==
    /\ p_running' = FALSE
    /\ IF Alive(Tracked.dummy)
       THEN /\ p_tasks' = [p_tasks EXCEPT ![p_starts].dummy = Ended]
            /\ p_call' = "stop_timing"
            /\ UNCHANGED p_handle
       ELSE StopFromTiming

PadStopBegin ==
    /\ p_call = "idle"
    /\ StopBody
    /\ UNCHANGED <<codecVars, dnsVars, p_platform, p_advanced, p_stats, p_snap, p_thread,
                   p_starts>>

PadStopTiming ==
    /\ p_call = "stop_timing"
    /\ StopFromTiming
    /\ UNCHANGED <<codecVars, dnsVars, p_platform, p_running, p_advanced, p_stats, p_snap,
                   p_thread, p_starts>>

PadStopIntercept ==
    /\ p_call = "stop_intercept"
    /\ CloseInterceptor
    /\ p_call' = "join"
    /\ UNCHANGED <<codecVars, dnsVars, p_platform, p_running, p_advanced, p_stats, p_snap,
                   p_tasks, p_thread, p_starts>>

\* mutant: stop() starts the statistics afresh
PadStopJoinResets ==
    /\ p_call = "join"
    /\ p_platform = "Windows" => p_thread.pc \in {"none", "done"}
    /\ p_call' = "idle"
    /\ p_stats' = ZeroStats
    /\ UNCHANGED <<codecVars, dnsVars, p_platform, p_running, p_advanced, p_snap,
                   p_tasks, p_thread, p_handle, p_starts>>

\* self.intercept_thread.join(timeout=2), line 620: it returns when the thread has
\* ended or the two seconds are over. On Windows the closed handle makes recv and
\* send raise, and the longest time.sleep of the loop is under half a second, so
\* there the thread has ended when join returns; on Linux nothing ends
\* nfqueue.run(), and join returns by its timeout.
PadStopJoin ==
    /\ p_call = "join"
    /\ p_platform = "Windows" => p_thread.pc \in {"none", "done"}
    /\ p_call' = "idle"
    /\ UNCHANGED <<codecVars, dnsVars, p_platform, p_running, p_advanced, p_stats, p_snap,
                   p_tasks, p_thread, p_handle, p_starts>>

(***************************************************************************)
(* start, lines 79-100, and start_advanced, lines 102-127, with            *)
(* _start_packet_interception, lines 163-199 and 244-265. Nothing in them  *)
(* suspends, so each is one step. Neither looks at self.running: a start   *)
(* on a running engine creates a second pair of tasks and forgets the      *)
(* first.                                                                  *)
(***************************************************************************)
\* mutant: a failure to create the interception object is raised to start()
_start_packet_interception_raises(interceptOk) ==
    IF p_platform = "other" THEN "unavailable"
    ELSE IF interceptOk THEN "started" ELSE "raised"

\* interceptOk: the interception object could be created (WinDivert(...), or
\* NetfilterQueue().bind). Without a library the else branch logs a warning
\* (line 171); a failure is logged by the except clause of lines 173-175 and
\* not raised again
_start_packet_interception(interceptOk) ==
    IF p_platform = "other" THEN "unavailable"
    ELSE IF interceptOk THEN "started" ELSE "failed"

\* the body the two start calls share; advanced: the call is start_advanced.
\* The model keeps one intercept thread: on Windows a start is taken when no
\* thread of an earlier start is still there.
StartEngine(advanced, interceptOk) ==
    /\ p_call = "idle"
    /\ p_starts < MaxPadCalls
    /\ p_platform = "Windows" => p_thread.pc \in {"none", "done"}
    /\ p_advanced' = (p_advanced \/ advanced)
    /\ LET outcome == _start_packet_interception(interceptOk) IN
       IF outcome = "raised"
       THEN \* except Exception: await self.stop(); raise
            /\ StopBody
            /\ p_starts' = p_starts + 1
            /\ UNCHANGED p_thread
       ELSE /\ p_running' = TRUE
            /\ p_starts' = p_starts + 1
            /\ IF p_platform = "Windows" /\ outcome = "started"
               THEN p_handle' = "made" /\ p_thread' = [NoThread EXCEPT !.pc = "start"]
               ELSE IF p_platform = "Linux" /\ outcome = "started" /\ p_thread.pc = "none"
               THEN p_thread' = [NoThread EXCEPT !.pc = "recv"] /\ UNCHANGED p_handle
               ELSE UNCHANGED <<p_handle, p_thread>>
            /\ p_tasks' = [p_tasks EXCEPT ![p_starts + 1] =
                   [dummy |-> [pc |-> "ready", left |-> 0, adv |-> advanced],
                    timing |-> [pc |-> "ready", left |-> 0, adv |-> advanced]]]
            /\ UNCHANGED p_call
    /\ UNCHANGED <<codecVars, dnsVars, p_platform, p_stats, p_snap>>

start(interceptOk) == StartEngine(FALSE, interceptOk)

start_advanced(interceptOk) == StartEngine(TRUE, interceptOk)

(***************************************************************************)
(* _generate_dummy_traffic, lines 363-392, and _timing_obfuscation, lines  *)
(* 508-524: the tasks of start(). t is "dummy" or "timing", g the start    *)
(* call that created the task.                                             *)
(***************************************************************************)
TaskNames == {"dummy", "timing"}

\* the number of dummy packets of a cycle: random.randint(1, 3), line 383; for the
\* timing task none nine times in ten, else random.randint(2, 5), lines 517-518
BurstSizes(t) ==
    IF t = "dummy" THEN 1..Min(3, MaxBurst)
    ELSE {0} \cup 2..Min(5, MaxBurst)

\* "while self.running:" then the sleep that opens the cycle
LoopTop == IF p_running THEN [pc |-> "sleep", left |-> 0, adv |-> FALSE] ELSE Ended

\* the first step of the task
TaskRun(g, t) ==
    /\ p_tasks[g][t].pc = "ready"
    /\ ~p_tasks[g][t].adv
    /\ p_tasks' = [p_tasks EXCEPT ![g][t] = LoopTop]
    /\ UNCHANGED <<codecVars, dnsVars, p_platform, p_running, p_advanced, p_stats, p_snap,
                   p_call, p_thread, p_handle, p_starts>>

\* the sleep is over: the dummy task leaves if the flag is down (line 379), and
\* the cycle's burst is drawn and its first packet is on its way
TaskWake(g, t, n) ==
    /\ p_tasks[g][t].pc = "sleep"
    /\ ~p_tasks[g][t].adv
    /\ n \in BurstSizes(t)
    /\ p_tasks' = [p_tasks EXCEPT ![g][t] =
           IF t = "dummy" /\ ~p_running THEN Ended
           ELSE IF n = 0 THEN LoopTop
           ELSE [pc |-> "sending", left |-> n, adv |-> FALSE]]
    /\ UNCHANGED <<codecVars, dnsVars, p_platform, p_running, p_advanced, p_stats, p_snap,
                   p_call, p_thread, p_handle, p_starts>>

\* _send_dummy_packet, lines 472-506: sock_sendto returns (the counter goes up) or
\* raises (swallowed); then the sleep after the packet
TaskSent(g, t, ok) ==
    /\ p_tasks[g][t].pc = "sending"
    /\ ~p_tasks[g][t].adv
    /\ ok => p_stats.dummy_packets_sent < MaxDummySent
    /\ p_stats' = IF ok THEN [p_stats EXCEPT !.dummy_packets_sent = @ + 1] ELSE p_stats
    /\ p_tasks' = [p_tasks EXCEPT ![g][t] = [@ EXCEPT !.pc = "gap", !.left = @ - 1]]
    /\ UNCHANGED <<codecVars, dnsVars, p_platform, p_running, p_advanced, p_snap, p_call,
                   p_thread, p_handle, p_starts>>

\* after that sleep: the next packet of the burst, or the next cycle
TaskGap(g, t) ==
    /\ p_tasks[g][t].pc = "gap"
    /\ ~p_tasks[g][t].adv
    /\ p_tasks' = [p_tasks EXCEPT ![g][t] =
           IF @.left > 0 THEN [@ EXCEPT !.pc = "sending"] ELSE LoopTop]
    /\ UNCHANGED <<codecVars, dnsVars, p_platform, p_running, p_advanced, p_stats, p_snap,
                   p_call, p_thread, p_handle, p_starts>>

\* an exception inside the try of a cycle: except Exception, then sleep(1). In
\* the advanced timing task the cover traffic has a try of its own (lines
\* 579-587), so only the rest of the cycle comes here.
TaskError(g, t) ==
    /\ p_tasks[g][t].pc \in (IF p_tasks[g][t].adv /\ t = "timing"
                            THEN {"sleep"} ELSE {"sleep", "sending", "gap"})
    /\ p_tasks' = [p_tasks EXCEPT ![g][t] = [@ EXCEPT !.pc = "backoff", !.left = 0]]
    /\ UNCHANGED <<codecVars, dnsVars, p_platform, p_running, p_advanced, p_stats, p_snap,
                   p_call, p_thread, p_handle, p_starts>>

\* after sleep(1): back to the while test
TaskBackoff(g, t) ==
    /\ p_tasks[g][t].pc = "backoff"
    /\ ~p_tasks[g][t].adv
    /\ p_tasks' = [p_tasks EXCEPT ![g][t] = LoopTop]
    /\ UNCHANGED <<codecVars, dnsVars, p_platform, p_running, p_advanced, p_stats, p_snap,
                   p_call, p_thread, p_handle, p_starts>>

(***************************************************************************)
(* _generate_advanced_dummy_traffic, lines 394-429, and                    *)
(* _advanced_timing_obfuscation with _add_burst_cover_traffic, lines       *)
(* 526-543 and 575-587: the tasks of start_advanced().                     *)
(***************************************************************************)
\* the packets of a cycle. Dummy task: random.randint(*pattern['burst_size']),
\* line 404, where the patterns of lines 132-160 give 1..8, 10..25 and 50..100.
\* Timing task: none when detect_burst() is false, else random.randint(3, 8),
\* line 581. A burst is cut to MaxBurst packets.
AdvBurstSizes(t) ==
    IF t = "dummy" THEN 1..Min(8, MaxBurst)
    ELSE {0} \cup {Min(n, MaxBurst) : n \in 3..8}

\* "while self.running:" at the head of a cycle, which opens with the burst; in
\* the dummy task the first "if not self.running" of line 407 follows at once
AdvTop(n) ==
    IF ~p_running THEN Ended
    ELSE IF n = 0 THEN [pc |-> "sleep", left |-> 0, adv |-> TRUE]
    ELSE [pc |-> "sending", left |-> n, adv |-> TRUE]

\* the first step of the task, and each later cycle: after the sleep that ends a
\* cycle (lines 425 and 539) or the sleep(1) of the except clause
AdvCycle(g, t, n) ==
    /\ p_tasks[g][t].pc \in {"ready", "sleep", "backoff"}
    /\ p_tasks[g][t].adv
    /\ n \in AdvBurstSizes(t)
    /\ p_tasks' = [p_tasks EXCEPT ![g][t] = AdvTop(n)]
    /\ UNCHANGED <<codecVars, dnsVars, p_platform, p_running, p_advanced, p_stats, p_snap,
                   p_call, p_thread, p_handle, p_starts>>

\* _send_dummy_packet returns. The dummy task sleeps between two packets of a
\* burst only (line 420) and goes to the sleep that ends the cycle after the
\* last; the cover traffic sleeps after every packet (line 584).
AdvSent(g, t, ok) ==
    /\ p_tasks[g][t].pc = "sending"
    /\ p_tasks[g][t].adv
    /\ ok => p_stats.dummy_packets_sent < MaxDummySent
    /\ p_stats' = IF ok THEN [p_stats EXCEPT !.dummy_packets_sent = @ + 1] ELSE p_stats
    /\ p_tasks' = [p_tasks EXCEPT ![g][t] =
           [@ EXCEPT !.pc = IF t = "dummy" /\ p_tasks[g][t].left = 1 THEN "sleep" ELSE "gap",
                     !.left = @ - 1]]
    /\ UNCHANGED <<codecVars, dnsVars, p_platform, p_running, p_advanced, p_snap, p_call,
                   p_thread, p_handle, p_starts>>

\* after the sleep that follows a packet: the dummy task leaves the burst when
\* the flag is down (lines 407-408), the cover traffic sends on whatever the
\* flag; a burst that is over is followed by the sleep that ends the cycle
AdvGap(g, t) ==
    /\ p_tasks[g][t].pc = "gap"
    /\ p_tasks[g][t].adv
    /\ p_tasks' = [p_tasks EXCEPT ![g][t] =
           IF @.left > 0 /\ (t = "timing" \/ p_running)
           THEN [@ EXCEPT !.pc = "sending"]
           ELSE [pc |-> "sleep", left |-> 0, adv |-> TRUE]]
    /\ UNCHANGED <<codecVars, dnsVars, p_platform, p_running, p_advanced, p_stats, p_snap,
                   p_call, p_thread, p_handle, p_starts>>

(***************************************************************************)
(* The intercept thread: _windows_packet_loop, lines 201-242, and          *)
(* _linux_packet_callback under nfqueue.run(), lines 267-301. It runs      *)
(* beside the event loop's thread: every statement of it is a step.        *)
(***************************************************************************)
\* "while self.running:" of line 206, then recv(); on leaving, the finally clause
\* closes the handle
WinLoopTop == IF p_running THEN [NoThread EXCEPT !.pc = "recv"] ELSE [NoThread EXCEPT !.pc = "done"]

\* self.packet_interceptor.open(), line 204
WinOpen(ok) ==
    /\ p_platform = "Windows"
    /\ p_thread.pc = "start"
    /\ ok => p_handle = "made"
    /\ p_thread' = IF ok THEN WinLoopTop ELSE [NoThread EXCEPT !.pc = "done"]
    /\ p_handle' = IF p_thread'.pc = "done" THEN "closed" ELSE "open"
    /\ UNCHANGED <<codecVars, dnsVars, p_platform, p_running, p_advanced, p_stats, p_snap,
                   p_call, p_tasks, p_starts>>

\* a packet arrives and _process_packet is entered (lines 213 and 279). A packet
\* left alone is handed on; for a shorter one packets_padded has gone up (line
\* 324) and bytes_added is still to follow
InterceptRecv(data, draw) ==
    /\ p_thread.pc = "recv"
    /\ p_platform = "Windows" => p_handle = "open"
    /\ Len(data) < target_packet_size => p_stats.packets_padded < MaxPackets
    /\ LET r == _process_packet(data, p_stats, draw) IN
       /\ p_stats' = [p_stats EXCEPT !.packets_padded = r.stats.packets_padded]
       /\ p_thread' = [pc |-> IF r.ret.some THEN "padding" ELSE "forward",
                       pkt |-> data, mod |-> r.ret]
    /\ UNCHANGED <<codecVars, dnsVars, p_platform, p_running, p_advanced, p_snap, p_call,
                   p_tasks, p_handle, p_starts>>

\* line 325 and the return: bytes_added takes the value _process_packet gives
\* it, and the padded packet waits in time.sleep
InterceptCount(draw) ==
    /\ p_thread.pc = "padding"
    /\ LET was == [p_stats EXCEPT !.packets_padded = @ - 1]
           r == _process_packet(p_thread.pkt, was, draw) IN
       /\ r.ret = p_thread.mod
       /\ p_stats' = [p_stats EXCEPT !.bytes_added = r.stats.bytes_added]
    /\ p_thread' = [p_thread EXCEPT !.pc = "delay"]
    /\ UNCHANGED <<codecVars, dnsVars, p_platform, p_running, p_advanced, p_snap, p_call,
                   p_tasks, p_handle, p_starts>>

\* recv() raises: except Exception ... break, lines 233-236
WinRecvError ==
    /\ p_platform = "Windows"
    /\ p_thread.pc = "recv"
    /\ p_thread' = [NoThread EXCEPT !.pc = "done"]
    /\ p_handle' = "closed"
    /\ UNCHANGED <<codecVars, dnsVars, p_platform, p_running, p_advanced, p_stats, p_snap,
                   p_call, p_tasks, p_starts>>

\* self.packet_interceptor.send(packet), lines 226 and 231: it returns, or it
\* raises and the loop is left through the break of line 236
WinSend(ok) ==
    /\ p_platform = "Windows"
    /\ p_thread.pc \in {"delay", "forward"}
    /\ ok => p_handle = "open"
    /\ p_stats' = IF ok /\ p_thread.pc = "delay"
                  THEN [p_stats EXCEPT !.packets_delayed = @ + 1] ELSE p_stats
    /\ p_thread' = IF ok THEN WinLoopTop ELSE [NoThread EXCEPT !.pc = "done"]
    /\ p_handle' = IF p_thread'.pc = "done" THEN "closed" ELSE p_handle
    /\ UNCHANGED <<codecVars, dnsVars, p_platform, p_running, p_advanced, p_snap, p_call,
                   p_tasks, p_starts>>

\* mutant: packets_delayed is counted for every packet accepted in the try
LinuxAcceptCountsAll(ok) ==
    /\ p_platform = "Linux"
    /\ p_thread.pc \in {"delay", "forward"}
    /\ p_stats' = IF ok THEN [p_stats EXCEPT !.packets_delayed = @ + 1] ELSE p_stats
    /\ p_thread' = [NoThread EXCEPT !.pc = "recv"]
    /\ UNCHANGED <<codecVars, dnsVars, p_platform, p_running, p_advanced, p_snap, p_call,
                   p_tasks, p_handle, p_starts>>

\* the end of the callback, lines 291-301: set_payload and accept return, or one
\* raises and the except clause accepts the packet; nfqueue.run() goes on
LinuxAccept(ok) ==
    /\ p_platform = "Linux"
    /\ p_thread.pc \in {"delay", "forward"}
    /\ p_stats' = IF ok /\ p_thread.pc = "delay"
                  THEN [p_stats EXCEPT !.packets_delayed = @ + 1] ELSE p_stats
    /\ p_thread' = [NoThread EXCEPT !.pc = "recv"]
    /\ UNCHANGED <<codecVars, dnsVars, p_platform, p_running, p_advanced, p_snap, p_call,
                   p_tasks, p_handle, p_starts>>

(***************************************************************************)
(* get_stats, lines 627-629, called by a status reader on the event loop's *)
(* thread while the intercept thread runs.                                 *)
(***************************************************************************)
\* mutant: the dictionary itself is returned
get_stats_same(stats) == [taken |-> TRUE, alias |-> TRUE, val |-> stats]

\* return self.stats.copy()
get_stats(stats) == [taken |-> TRUE, alias |-> FALSE, val |-> stats]

GetStats ==
    /\ p_snap' = get_stats(p_stats)
    /\ UNCHANGED <<codecVars, dnsVars, p_platform, p_running, p_advanced, p_stats, p_call,
                   p_tasks, p_thread, p_handle, p_starts>>

\* the reader assigns to a key of the dictionary it was given; the engine's
\* dictionary changes with it only if the two are one object
SnapshotWrite(key) ==
    /\ p_snap.taken
    /\ p_snap.val[key] # 0
    /\ p_snap' = [p_snap EXCEPT !.val[key] = 0]
    /\ p_stats' = IF p_snap.alias THEN [p_stats EXCEPT ![key] = 0] ELSE p_stats
    /\ UNCHANGED <<codecVars, dnsVars, p_platform, p_running, p_advanced, p_call, p_tasks,
                   p_thread, p_handle, p_starts>>

TaskNext ==
    \E g \in Gens, t \in TaskNames :
        \/ TaskRun(g, t)
        \/ \E n \in BurstSizes(t) : TaskWake(g, t, n)
        \/ \E ok \in BOOLEAN : TaskSent(g, t, ok)
        \/ TaskGap(g, t)
        \/ TaskError(g, t)
        \/ TaskBackoff(g, t)
        \/ \E n \in AdvBurstSizes(t) : AdvCycle(g, t, n)
        \/ \E ok \in BOOLEAN : AdvSent(g, t, ok)
        \/ AdvGap(g, t)

ThreadNext ==
    \/ \E ok \in BOOLEAN : WinOpen(ok)
    \/ \E data \in Payloads, draw \in Draws : InterceptRecv(data, draw)
    \/ \E draw \in Draws : InterceptCount(draw)
    \/ WinRecvError
    \/ \E ok \in BOOLEAN : WinSend(ok)
    \/ \E ok \in BOOLEAN : LinuxAccept(ok)

PadStopNext ==
    \/ PadStopBegin
    \/ PadStopTiming
    \/ PadStopIntercept
    \/ PadStopJoin

\* one run of the engine: a start, basic or advanced, and stop
PadCallNext ==
    \/ \E interceptOk \in BOOLEAN : p_starts < MaxPadStarts /\ start(interceptOk)
    \/ \E interceptOk \in BOOLEAN : p_starts < MaxPadStarts /\ start_advanced(interceptOk)
    \/ PadStopNext

(***************************************************************************)
(* BurstDetector, lines 631-656. Time is counted in ticks of 1/threshold   *)
(* of a second, so that window_size + 1 seconds divide evenly among        *)
(* threshold gaps.                                                         *)
(***************************************************************************)
\* BurstDetector(), lines 634-637: the defaults, and two smaller detectors
DetDefault == [window_size |-> 10, threshold |-> 5]
DetConfigs == { DetDefault,
                [window_size |-> 3, threshold |-> 2],
                [window_size |-> 1, threshold |-> 1] }

TicksPerSecond(cfg) == cfg.threshold
WindowTicks(cfg) == cfg.window_size * TicksPerSecond(cfg)

DetIdle ==
    /\ b_cfg = DetDefault
    /\ b_times = <<>>
    /\ b_now = 0
    /\ b_ret = FALSE
    /\ b_calls = <<>>

\* [t for t in self.packet_times if t > cutoff_time], line 653
Retain(times, cutoff_time) == SelectSeq(times, LAMBDA t : t > cutoff_time)

\* mutant: the test of line 656 with >= for >
ReachesThreshold(count, threshold) == count >= threshold

\* len(self.packet_times) > self.threshold, line 656
ExceedsThreshold(count, threshold) == count > threshold

\* detect_burst with time.time() = current_time, lines 646-656: the new list and
\* the value returned
detect_burst(cfg, times, current_time) ==
    LET cutoff_time == current_time - WindowTicks(cfg)
        kept == Retain(Append(times, current_time), cutoff_time)
    IN [packet_times |-> kept, ret |-> ExceedsThreshold(Len(kept), cfg.threshold)]

\* the change of time.time() between two calls, in ticks: none, one tick, the gaps
\* that spread threshold + 1 calls over window_size and over window_size + 1
\* seconds, a whole window, and the system clock set back by a tick or a window
\* (time.time() is the wall clock, not time.monotonic())
Gaps(cfg) == {0 - WindowTicks(cfg), 0 - 1, 0, 1, cfg.window_size, cfg.window_size + 1,
              WindowTicks(cfg)}

\* the clock moves on by gap and detect_burst is called
DetectBurst(gap) ==
    /\ Len(b_calls) < MaxChecks
    /\ b_now + gap >= 0
    /\ b_now' = b_now + gap
    /\ LET r == detect_burst(b_cfg, b_times, b_now + gap) IN
         /\ b_times' = r.packet_times
         /\ b_ret' = r.ret
    /\ b_calls' = Append(b_calls, b_now + gap)
    /\ UNCHANGED <<dnsVars, padVars, resolveVars, selVars, coverVars, b_cfg,
                   c_pc, c_data, c_ips, c_type, c_parsed, c_resp>>

(***************************************************************************)
(* _select_traffic_pattern, lines 431-442                                  *)
(***************************************************************************)
\* a double in [0, 2): the pair (hi, lo) is the value (hi * 2^28 + lo) * 2^-56
Half28 == 268435456
Dbl(hi, lo) == [hi |-> hi, lo |-> lo]
DblZero == Dbl(0, 0)

NoPick == [name |-> "none", fallback |-> FALSE, cumulative_prob |-> DblZero]

SelIdle ==
    /\ s_pc = "idle"
    /\ s_rand = DblZero
    /\ s_pick = NoPick

\* a + b in IEEE 754 double precision: the exact sum, rounded to 53 significant
\* bits, ties to the even neighbour
Quantum(hi) ==
    IF hi >= Half28 THEN 16
    ELSE IF hi >= Half28 \div 2 THEN 8
    ELSE IF hi >= Half28 \div 4 THEN 4
    ELSE IF hi >= Half28 \div 8 THEN 2
    ELSE 1

DblAdd(a, b) ==
    LET lo == (a.lo + b.lo) % Half28
        hi == a.hi + b.hi + ((a.lo + b.lo) \div Half28)
        q == Quantum(hi)
        r == lo % q
        down == lo - r
        up == r * 2 > q \/ (r * 2 = q /\ (down \div q) % 2 = 1)
        rounded == IF up THEN down + q ELSE down
    IN Dbl(hi + (rounded \div Half28), rounded % Half28)

\* mutant: the test of line 438 with < for <=
DblLt(a, b) == a.hi < b.hi \/ (a.hi = b.hi /\ a.lo < b.lo)

\* a <= b
DblLe(a, b) == a.hi < b.hi \/ (a.hi = b.hi /\ a.lo <= b.lo)

\* self.cover_traffic_patterns, lines 132-161: the names and the doubles that the
\* literals 0.4, 0.3, 0.2 and 0.1 denote
cover_traffic_patterns ==
    << [name |-> "web_browsing", packet_sizes |-> {64, 128, 256, 512, 1024, 1460},
        burst_size |-> <<3, 8>>, probability |-> Dbl(107374182, 107374184)],
       [name |-> "video_streaming", packet_sizes |-> {1024, 1460, 1500},
        burst_size |-> <<10, 25>>, probability |-> Dbl(80530636, 214748364)],
       [name |-> "file_download", packet_sizes |-> {1460, 1500},
        burst_size |-> <<50, 100>>, probability |-> Dbl(53687091, 53687092)],
       [name |-> "background_updates", packet_sizes |-> {64, 128, 256},
        burst_size |-> <<1, 3>>, probability |-> Dbl(26843545, 161061274)] >>

\* the for loop of lines 436-439 from pattern i on, and the fall-back of line 442
RECURSIVE SelectFrom(_, _, _)
SelectFrom(rand, i, cumulative_prob) ==
    IF i > Len(cover_traffic_patterns)
    THEN [name |-> cover_traffic_patterns[1].name, fallback |-> TRUE,
          cumulative_prob |-> cumulative_prob]
    ELSE LET cum == DblAdd(cumulative_prob, cover_traffic_patterns[i].probability) IN
         IF DblLe(rand, cum)
         THEN [name |-> cover_traffic_patterns[i].name, fallback |-> FALSE,
               cumulative_prob |-> cum]
         ELSE SelectFrom(rand, i + 1, cum)

_select_traffic_pattern(rand) == SelectFrom(rand, 1, DblZero)

\* random.random() gives the multiples of 2^-53 in [0, 1). The draws of the
\* model: 0, the largest value, and the values at and next to each cumulative
\* probability
DrawHi == {0, 107374181, 107374182, 107374183, 187904818, 187904819, 187904820,
           241591909, 241591910, 241591911, 268435454, 268435455}
DrawLo == {0, 53687080, 53687088, 53687096, 107374168, 107374176, 107374184, 107374192,
           268435440, 268435448}
RandomDraws == {Dbl(h, l) : h \in DrawHi, l \in DrawLo}

SelectTrafficPattern ==
    /\ s_pc = "draw"
    /\ s_pick' = _select_traffic_pattern(s_rand)
    /\ s_pc' = "done"
    /\ UNCHANGED <<dnsVars, padVars, resolveVars, detVars, coverVars, s_rand,
                   c_pc, c_data, c_ips, c_type, c_parsed, c_resp>>

(***************************************************************************)
(* _generate_advanced_dummy_traffic, lines 394-429, with                   *)
(* _select_dummy_destination, lines 444-470: one task, burst by burst, with *)
(* the pattern's own sizes, burst range and destinations. A step runs from *)
(* one await of the coroutine to the next.                                 *)
(***************************************************************************)
NoBurst == [pattern |-> "none", burst_size |-> 0, attempted |-> 0, size |-> 0,
            destination |-> <<"", 0>>]

CoverIdle ==
    /\ a_pc = "idle" /\ a_running = FALSE /\ a_burst = NoBurst
    /\ a_sock = "none" /\ a_sent = 0

\* the dictionary of self.cover_traffic_patterns that _select_traffic_pattern
\* returned
PatternNamed(name) ==
    cover_traffic_patterns[CHOOSE i \in 1..Len(cover_traffic_patterns) :
                               cover_traffic_patterns[i].name = name]

\* the list random.choice draws from at line 470
_select_dummy_destination(name) ==
    IF name = "web_browsing"
    THEN {<<"www.google.com", 80>>, <<"www.cloudflare.com", 443>>,
          <<"www.github.com", 443>>, <<"www.stackoverflow.com", 443>>}
    ELSE IF name = "video_streaming"
    THEN {<<"youtube.com", 443>>, <<"netflix.com", 443>>, <<"twitch.tv", 443>>}
    ELSE IF name = "file_download"
    THEN {<<"archive.org", 443>>, <<"download.mozilla.org", 443>>}
    ELSE {<<"update.microsoft.com", 443>>, <<"dl.google.com", 443>>}

\* mutant: a burst may be one packet longer than the pattern's upper end
BurstSizesOfOpen(pattern) == pattern.burst_size[1]..(pattern.burst_size[2] + 1)

\* random.randint(*pattern['burst_size']), line 404
BurstSizesOf(pattern) == pattern.burst_size[1]..pattern.burst_size[2]

\* lines 411-417: the size and the destination of the next packet are drawn and
\* _send_dummy_packet is entered; it makes its socket (line 489) and is
\* suspended at sock_sendto (line 493)
NextPacket(burst, packet_size, destination) ==
    [burst EXCEPT !.attempted = @ + 1, !.size = packet_size, !.destination = destination]

\* "while self.running:" of line 398, at the start of the task and after the
\* sleep of line 425: a pattern and a burst size are drawn, and the first packet
\* of the burst is on its way (nothing suspends between lines 398 and 415)
CoverCycle(rand) ==
    /\ a_pc \in {"ready", "pause"}
    /\ IF ~a_running
       THEN a_pc' = "done" /\ UNCHANGED <<a_burst, a_sock>>
       ELSE LET pattern == PatternNamed(_select_traffic_pattern(rand).name) IN
            \E burst_size \in BurstSizesOf(pattern), packet_size \in pattern.packet_sizes,
               destination \in _select_dummy_destination(pattern.name) :
                /\ a_burst' = NextPacket([NoBurst EXCEPT !.pattern = pattern.name,
                                                         !.burst_size = burst_size],
                                         packet_size, destination)
                /\ a_sock' = "open"
                /\ a_pc' = "send"
    /\ UNCHANGED <<dnsVars, padVars, resolveVars, detVars, selVars, a_running, a_sent,
                   c_pc, c_data, c_ips, c_type, c_parsed, c_resp>>

\* mutant: a send that fails leaves _send_dummy_packet as an exception, past
\* the close, and takes the loop to its except clause
CoverSentRaises(ok) ==
    /\ a_pc = "send"
    /\ ok => a_sent < MaxCoverSent
    /\ a_sent' = IF ok THEN a_sent + 1 ELSE a_sent
    /\ a_sock' = IF ok THEN "closed" ELSE "open"
    /\ a_pc' = IF ~ok THEN "backoff"
               ELSE IF a_burst.attempted < a_burst.burst_size THEN "gap" ELSE "pause"
    /\ UNCHANGED <<dnsVars, padVars, resolveVars, detVars, selVars, a_running, a_burst,
                   c_pc, c_data, c_ips, c_type, c_parsed, c_resp>>

\* the rest of _send_dummy_packet, lines 493-506: sock_sendto returns and the
\* counter goes up (ok), or it raises and "except Exception: pass" swallows
\* it; the finally clause closes the socket either way. Back in the loop: the
\* sleep between two packets, or after the last packet the sleep that ends the
\* cycle
CoverSent(ok) ==
    /\ a_pc = "send"
    /\ ok => a_sent < MaxCoverSent
    /\ a_sent' = IF ok THEN a_sent + 1 ELSE a_sent
    /\ a_sock' = "closed"
    /\ a_pc' = IF a_burst.attempted < a_burst.burst_size THEN "gap" ELSE "pause"
    /\ UNCHANGED <<dnsVars, padVars, resolveVars, detVars, selVars, a_running, a_burst,
                   c_pc, c_data, c_ips, c_type, c_parsed, c_resp>>

\* the sleep of line 422 is over: "if not self.running: break", lines 407-408,
\* or the next packet
CoverGap ==
    /\ a_pc = "gap"
    /\ IF ~a_running
       THEN a_pc' = "pause" /\ UNCHANGED <<a_burst, a_sock>>
       ELSE LET pattern == PatternNamed(a_burst.pattern) IN
            \E packet_size \in pattern.packet_sizes,
               destination \in _select_dummy_destination(pattern.name) :
                /\ a_burst' = NextPacket(a_burst, packet_size, destination)
                /\ a_sock' = "open"
                /\ a_pc' = "send"
    /\ UNCHANGED <<dnsVars, padVars, resolveVars, detVars, selVars, a_running, a_sent,
                   c_pc, c_data, c_ips, c_type, c_parsed, c_resp>>

\* stop(), lines 593-602: the flag goes down, and the task is cancelled at the
\* await it is in if it is the one self.dummy_traffic_task names (tracked); a
\* task that an earlier start left behind only sees the flag. A task cancelled
\* at sock_sendto passes the finally clause of line 502 on its way out.
CoverStop(tracked) ==
    /\ a_running
    /\ a_running' = FALSE
    /\ a_pc' = IF tracked THEN "done" ELSE a_pc
    /\ a_sock' = IF tracked /\ a_pc = "send" THEN "closed" ELSE a_sock
    /\ UNCHANGED <<dnsVars, padVars, resolveVars, detVars, selVars, a_burst, a_sent,
                   c_pc, c_data, c_ips, c_type, c_parsed, c_resp>>

\* no call of _resolve_via_doh under observation
ResolveIdle ==
    /\ r_pc = "idle"
    /\ r_in = [session |-> "none", query_type |-> 1,
               reply |-> [kind |-> "error", status |-> 0, answer |-> <<>>]]
    /\ r_out = [reqs |-> 0, raised |-> "none", result |-> None]

CodecIdle ==
    /\ c_pc = "input" /\ c_data = <<>> /\ c_ips = <<>> /\ c_type = 1
    /\ c_parsed = ParseNone /\ c_resp = <<>>
    /\ ResolveIdle
    /\ DetIdle /\ SelIdle /\ CoverIdle

InitDns == DnsIdle /\ CodecIdle /\ PadIdle /\ p_platform = "other"

NextDns == CallNext \/ LoopNext \/ UnitNext

SpecDns == InitDns /\ [][NextDns]_vars

\* The event loop runs every task that is ready, and both backends answer or
\* raise within their timeouts (ClientTimeout(total=10), line 75): a task that can
\* take a step takes it.
SpecDnsLive == SpecDns /\ \A u \in Units : WF_vars(UnitStep(u))

\* The same, and a listener task that is ready, or whose sleep(0.1) is over, is
\* run. Nothing makes a sock_recvfrom that is pending on a socket closed by stop()
\* return: the selector event loops leave its future pending, the proactor event
\* loop makes it raise.
SpecDnsStop ==
    /\ SpecDns
    /\ \A u \in Units : WF_vars(UnitStep(u))
    /\ \A l \in Socks : WF_vars(LoopStep(l))

(***************************************************************************)
(* The life cycle of one DNSHandler: every start call, with and without a  *)
(* failure, and stop, in any order, with one datagram.                     *)
(***************************************************************************)
LifeUnits == {1}
LifeDatagrams == { [data |-> QueryExampleComA, addr |-> "client1"] }
LifeDohReplies == { [kind |-> "error", status |-> 0, answer |-> <<>>],
                    [kind |-> "http", status |-> 200,
                     answer |-> << [type |-> 1, data |-> "93.184.216.34"] >>] }
LifeTorReplies == { [kind |-> "ok", ips |-> <<"10.0.0.1">>] }

LifeCallNext ==
    \/ \E provider \in Providers, outcome \in Outcomes : StartDoh(provider, outcome)
    \/ \E outcome \in Outcomes : StartDohWithProxy(outcome)
    \/ \E outcome \in Outcomes : StartTorDns(outcome)
    \/ StopBegin
    \/ StopFinish

LifeLoopNext ==
    \E l \in Socks :
        \/ LoopStep(l)
        \/ \E u \in LifeUnits, dg \in LifeDatagrams : LoopRecv(l, u, dg)
        \/ LoopRecvError(l)

LifeUnitNext ==
    \E u \in LifeUnits :
        \/ UnitStart(u)
        \/ \E reply \in LifeDohReplies : UnitDohReply(u, reply, TRUE)
        \/ \E reply \in LifeTorReplies : UnitTorReply(u, reply, TRUE)

NextDnsLife == LifeCallNext \/ LifeLoopNext \/ LifeUnitNext

SpecDnsLife == InitDns /\ [][NextDnsLife]_vars

InitPad == PadIdle /\ p_platform \in Platforms /\ DnsIdle /\ CodecIdle

NextPad == PadCallNext \/ TaskNext \/ ThreadNext

SpecPad == InitPad /\ [][NextPad]_vars

(***************************************************************************)
(* The life cycle of one PaddingHandler: start, start_advanced and stop in *)
(* any order, on a running engine too, with its tasks and its thread. The  *)
(* tasks take the shortest bursts and the thread one short packet, and the *)
(* cycles run without exceptions (those are in SpecPad).                   *)
(***************************************************************************)
PadLifeBursts(t) == IF t = "dummy" THEN {1} ELSE {0, 2}
PadLifePayloads == { Payload(target_packet_size - 1) }
PadLifeDraws == { [upper |-> 65, lower |-> 97, digit |-> 48, any |-> 1] }

PadLifeCallNext ==
    \/ \E interceptOk \in BOOLEAN : start(interceptOk)
    \/ \E interceptOk \in BOOLEAN : start_advanced(interceptOk)
    \/ PadStopNext

PadLifeTaskNext ==
    \E g \in Gens, t \in TaskNames :
        \/ TaskRun(g, t)
        \/ \E n \in PadLifeBursts(t) : TaskWake(g, t, n)
        \/ \E ok \in BOOLEAN : TaskSent(g, t, ok)
        \/ TaskGap(g, t)
        \/ \E n \in PadLifeBursts(t) : AdvCycle(g, t, n)
        \/ \E ok \in BOOLEAN : AdvSent(g, t, ok)
        \/ AdvGap(g, t)

PadLifeThreadNext ==
    \/ \E ok \in BOOLEAN : WinOpen(ok)
    \/ \E data \in PadLifePayloads, draw \in PadLifeDraws : InterceptRecv(data, draw)
    \/ \E draw \in PadLifeDraws : InterceptCount(draw)
    \/ WinRecvError
    \/ \E ok \in BOOLEAN : WinSend(ok)
    \/ \E ok \in BOOLEAN : LinuxAccept(ok)

NextPadLife == PadLifeCallNext \/ PadLifeTaskNext \/ PadLifeThreadNext

SpecPadLife == InitPad /\ [][NextPadLife]_vars

(***************************************************************************)
(* A status reader beside the intercept thread: get_stats is called at any *)
(* point of the thread's run, and the reader may write to what it got.     *)
(***************************************************************************)
ReaderNext ==
    \/ GetStats
    \/ \E key \in Counters : SnapshotWrite(key)

NextStats == PadCallNext \/ ThreadNext \/ ReaderNext

SpecStats == InitPad /\ [][NextStats]_vars

(***************************************************************************)
(* One BurstDetector of each configuration, called at any of the gaps.     *)
(***************************************************************************)
InitBurst ==
    /\ DnsIdle
    /\ PadIdle /\ p_platform = "other"
    /\ c_pc = "input" /\ c_data = <<>> /\ c_ips = <<>> /\ c_type = 1
    /\ c_parsed = ParseNone /\ c_resp = <<>>
    /\ ResolveIdle /\ SelIdle /\ CoverIdle
    /\ b_cfg \in DetConfigs
    /\ b_times = <<>>
    /\ b_now = 0
    /\ b_ret = FALSE
    /\ b_calls = <<>>

NextBurst == \E gap \in Gaps(b_cfg) : DetectBurst(gap)

SpecBurst == InitBurst /\ [][NextBurst]_vars

(***************************************************************************)
(* One call of _select_traffic_pattern on each draw.                       *)
(***************************************************************************)
\* the task start_advanced() created at line 117, the flag up (line 107)
InitCover ==
    /\ DnsIdle
    /\ PadIdle /\ p_platform = "other"
    /\ c_pc = "input" /\ c_data = <<>> /\ c_ips = <<>> /\ c_type = 1
    /\ c_parsed = ParseNone /\ c_resp = <<>>
    /\ ResolveIdle /\ DetIdle /\ SelIdle
    /\ a_pc = "ready" /\ a_running = TRUE /\ a_burst = NoBurst
    /\ a_sock = "none" /\ a_sent = 0

\* one value of random.random() inside each pattern's share, and the largest
CoverDraws == {Dbl(0, 0), Dbl(107374183, 0), Dbl(187904820, 0), Dbl(241591911, 0),
               Dbl(268435455, 268435448)}

NextCover ==
    \/ \E rand \in CoverDraws : CoverCycle(rand)
    \/ \E ok \in BOOLEAN : CoverSent(ok)
    \/ CoverGap
    \/ \E tracked \in BOOLEAN : CoverStop(tracked)

SpecCover == InitCover /\ [][NextCover]_vars

InitSelect ==
    /\ DnsIdle
    /\ PadIdle /\ p_platform = "other"
    /\ c_pc = "input" /\ c_data = <<>> /\ c_ips = <<>> /\ c_type = 1
    /\ c_parsed = ParseNone /\ c_resp = <<>>
    /\ ResolveIdle /\ DetIdle /\ CoverIdle
    /\ s_pc = "draw"
    /\ s_rand \in RandomDraws
    /\ s_pick = NoPick

NextSelect == SelectTrafficPattern

SpecSelect == InitSelect /\ [][NextSelect]_vars

(***************************************************************************)
(* One call of _resolve_via_doh(domain, query_type), lines 320-374, on     *)
(* every reply of the server: a network error, a status, a body that is    *)
(* not JSON, and every "Answer" array of the bound.                        *)
(***************************************************************************)
ResolveReplies ==
    DohReplies \cup { [kind |-> "badjson", status |-> 200, answer |-> <<>>] }

InitResolve ==
    /\ DnsIdle
    /\ PadIdle /\ p_platform = "other"
    /\ c_pc = "input" /\ c_data = <<>> /\ c_ips = <<>> /\ c_type = 1
    /\ c_parsed = ParseNone /\ c_resp = <<>>
    /\ DetIdle /\ SelIdle /\ CoverIdle
    /\ r_pc = "call"
    /\ r_in \in [session : {"none", "open"}, query_type : QueryTypes, reply : ResolveReplies]
    /\ r_out = [reqs |-> 0, raised |-> "none", result |-> None]

\* lines 321-353: 'if self.session:' fails and the call ends at 'return None'
\* (line 370), or session.get is entered: the one request of the call
ResolveCall ==
    /\ r_pc = "call"
    /\ IF r_in.session = "none"
       THEN /\ r_pc' = "done"
            /\ r_out' = [r_out EXCEPT !.result = None]
       ELSE /\ r_pc' = "request"
            /\ r_out' = [r_out EXCEPT !.reqs = @ + 1]
    /\ UNCHANGED <<dnsVars, padVars, detVars, selVars, coverVars, r_in, c_pc, c_data, c_ips, c_type,
                   c_parsed, c_resp>>

\* lines 353-374: the reply arrives; an exception of the request or of
\* response.json() is caught by 'except Exception' and None is returned
ResolveReply ==
    /\ r_pc = "request"
    /\ LET ips == DohResult(r_in.reply, r_in.query_type) IN
         r_out' = [r_out EXCEPT !.result = IF ips = <<>> THEN None ELSE Some(ips)]
    /\ r_pc' = "done"
    /\ UNCHANGED <<dnsVars, padVars, detVars, selVars, coverVars, r_in, c_pc, c_data, c_ips, c_type,
                   c_parsed, c_resp>>

NextResolve == ResolveCall \/ ResolveReply

SpecResolve == InitResolve /\ [][NextResolve]_vars

(***************************************************************************)
(* The codec harness.                                                      *)
(***************************************************************************)
InitCodec ==
    /\ DnsIdle
    /\ ResolveIdle
    /\ DetIdle /\ SelIdle /\ CoverIdle
    /\ PadIdle /\ p_platform = "other"
    /\ c_pc = "input"
    /\ \/ c_data \in Buffers /\ c_ips = <<>> /\ c_type = 1
       \/ c_data \in BuildBuffers /\ c_ips \in AnswerLists /\ c_type \in QueryTypes
    /\ c_parsed = ParseNone
    /\ c_resp = <<>>

\* query_info = self._parse_dns_query(data), line 243
ParseQuery ==
    /\ c_pc = "input"
    /\ c_parsed' = _parse_dns_query(c_data)
    /\ c_pc' = "parsed"
    /\ UNCHANGED <<dnsVars, padVars, resolveVars, detVars, selVars, coverVars, c_data, c_ips, c_type, c_resp>>

\* build_response called with the given answer list and record type
BuildResponse ==
    /\ c_pc = "parsed"
    /\ c_data \in BuildBuffers
    /\ c_resp' = _build_dns_response(c_data, c_ips, c_type)
    /\ c_pc' = "built"
    /\ UNCHANGED <<dnsVars, padVars, resolveVars, detVars, selVars, coverVars, c_data, c_ips, c_type, c_parsed>>

\* the handler's composition, lines 243-258: the parsed type is the one passed on
BuildFromParse ==
    /\ c_pc = "parsed"
    /\ c_data \in BuildBuffers
    /\ c_parsed.ok
    /\ c_resp' = _build_dns_response(c_data, c_ips, c_parsed.qtype)
    /\ c_type' = c_parsed.qtype
    /\ c_pc' = "built"
    /\ UNCHANGED <<dnsVars, padVars, resolveVars, detVars, selVars, coverVars, c_data, c_ips, c_parsed>>

NextCodec == ParseQuery \/ BuildResponse \/ BuildFromParse

SpecCodec == InitCodec /\ [][NextCodec]_vars

(***************************************************************************)
(* Reading a buffer by the DNS wire format, for the properties below:      *)
(* the offsets (0-based) at which a label length byte stands, walking from *)
(* offset 12 by the declared lengths.                                      *)
(***************************************************************************)
RECURSIVE LabelStarts(_, _)
LabelStarts(data, off) ==
    IF off >= Len(data) THEN {}
    ELSE {off} \cup
         (IF data[off + 1] \in 1..63 /\ off + 1 + data[off + 1] <= Len(data)
          THEN LabelStarts(data, off + 1 + data[off + 1])
          ELSE {})

TooShort(data) == Len(data) < 12
HasLongLengthByte(data) == \E p \in LabelStarts(data, 12) : data[p + 1] > 63
HasOverrunLabel(data) ==
    \E p \in LabelStarts(data, 12) : data[p + 1] \in 1..63 /\ p + 1 + data[p + 1] > Len(data)
NoLabelBeforeZero(data) == Len(data) > 12 /\ data[13] = 0

\* the labels before the terminating zero, and the offset of that zero
RECURSIVE WireLabels(_, _)
WireLabels(data, off) ==
    IF off >= Len(data) \/ data[off + 1] = 0 THEN <<>>
    ELSE <<SubSeq(data, off + 2, off + 1 + data[off + 1])>>
         \o WireLabels(data, off + 1 + data[off + 1])

ZeroOffset(data) == CHOOSE p \in LabelStarts(data, 12) : data[p + 1] = 0

RECURSIVE DottedName(_)
DottedName(labels) ==
    IF labels = <<>> THEN <<>>
    ELSE Utf8Decode(Head(labels), 1, <<>>).chars
         \o (IF Len(labels) > 1 THEN <<46>> ELSE <<>>) \o DottedName(Tail(labels))

\* str.lower() on the code points the model's labels hold (ASCII and Latin-1)
LowerCp(c) ==
    IF c \in 65..90 \/ (c \in 192..222 /\ c # 215) THEN c + 32 ELSE c
LowerCase(chars) == [i \in 1..Len(chars) |-> LowerCp(chars[i])]

\* well-formed single-question queries: 1..63-byte labels, type A or AAAA
WellFormedQueries ==
    { h \o Concat(ls) \o t : h \in Headers,
                             ls \in SeqsUpTo(GoodLabels, MaxLabels) \ {<<>>},
                             t \in { <<0, 0, 1, 0, 1>>, <<0, 0, 28, 0, 1>> } }

\* the resource records found from 0-based offset off on, walked by RDLENGTH
RECURSIVE RecordCount(_, _)
RecordCount(b, off) ==
    IF off + 12 > Len(b) THEN 0
    ELSE 1 + RecordCount(b, off + 12 + b[off + 11] * 256 + b[off + 12])

(***************************************************************************)
(* C1: for a well-formed single-question query (type 1 or 28) and a        *)
(* non-empty answer list, parsing and then building the response gives a   *)
(* buffer with the query's transaction ID, the QR bit set and an answer    *)
(* count equal to the length of the answer list.                           *)
(***************************************************************************)
C1_ParseBuildHeader ==
    (c_pc = "built" /\ c_data \in WellFormedQueries /\ c_ips # <<>>) =>
        /\ c_parsed.ok
        /\ Len(c_resp) >= 12
        /\ c_resp[1] = c_data[1] /\ c_resp[2] = c_data[2]
        /\ (c_resp[3] \div 128) % 2 = 1
        /\ c_resp[7] * 256 + c_resp[8] = Len(c_ips)

C1_Witness ==
    /\ c_pc = "built"
    /\ c_data = QueryExampleComA
    /\ c_ips = <<"93.184.216.34", "10.0.0.1">>
    /\ c_parsed.ok /\ c_type = c_parsed.qtype
    /\ c_resp[1] = 18 /\ c_resp[2] = 52 /\ c_resp[3] = 129 /\ c_resp[8] = 2

(***************************************************************************)
(* C2: every built response carries an answer count equal to the length of *)
(* the answer list and holds exactly that many resource records after the  *)
(* copied query, whatever the record type and the address literals.        *)
(* The code writes the count before it encodes, and skips what it cannot   *)
(* encode, so this statement is violated.                                  *)
(***************************************************************************)
C2_CountEqualsRecords ==
    (c_pc = "built" /\ Len(c_data) >= 12) =>
        /\ c_resp[7] * 256 + c_resp[8] = Len(c_ips)
        /\ RecordCount(c_resp, Len(c_data)) = Len(c_ips)

(***************************************************************************)
(* C4: _parse_dns_query returns None for every buffer shorter than 12      *)
(* bytes, with a label length byte over 63, with a label that would read   *)
(* past the end of the buffer, or with no label before the terminating     *)
(* zero-length label.                                                      *)
(***************************************************************************)
C4_ParseFailures ==
    (c_pc # "input" /\ (\/ TooShort(c_data)
                        \/ HasLongLengthByte(c_data)
                        \/ HasOverrunLabel(c_data)
                        \/ NoLabelBeforeZero(c_data))) =>
        c_parsed = ParseNone

C4_Witness ==
    /\ c_pc = "parsed"
    /\ ~TooShort(c_data) /\ ~NoLabelBeforeZero(c_data) /\ ~HasOverrunLabel(c_data)
    /\ HasLongLengthByte(c_data)
    /\ Cardinality(LabelStarts(c_data, 12)) = 2
    /\ c_parsed = ParseNone

(***************************************************************************)
(* C5 as stated: on success the domain is the lower-cased dot-joined       *)
(* labels and the type is the big-endian 16-bit value right after the      *)
(* terminating zero byte. The code does not change the case.               *)
(***************************************************************************)
C5_LowerCasedDomain ==
    (c_pc # "input" /\ c_parsed.ok) =>
        /\ c_parsed.domain = LowerCase(DottedName(WireLabels(c_data, 12)))
        /\ c_parsed.qtype = c_data[ZeroOffset(c_data) + 2] * 256 + c_data[ZeroOffset(c_data) + 3]

(***************************************************************************)
(* C5 amended: on success the domain is the dot-joined labels in order,    *)
(* with the case of the query kept, and the type is the big-endian 16-bit  *)
(* value right after the terminating zero byte.                            *)
(***************************************************************************)
C5_DomainAsSent ==
    (c_pc # "input" /\ c_parsed.ok) =>
        /\ c_parsed.domain = DottedName(WireLabels(c_data, 12))
        /\ c_parsed.qtype = c_data[ZeroOffset(c_data) + 2] * 256 + c_data[ZeroOffset(c_data) + 3]

C5_Witness ==
    /\ c_pc = "parsed" /\ c_parsed.ok
    /\ c_data = <<18, 52, 1, 0, 0, 1, 0, 0, 0, 0, 0, 0>> \o L_Ab \o L_com \o <<0, 0, 28, 0, 1>>
    /\ c_parsed.domain = <<65, 98, 46, 99, 111, 109>>
    /\ c_parsed.qtype = 28

(***************************************************************************)
(* Properties of the DNS server.                                           *)
(***************************************************************************)
QType(u) == _parse_dns_query(d_units[u].data).qtype
Parses(u) == _parse_dns_query(d_units[u].data).ok

\* the datagrams of the model that parse as a type-1 query
TypeAQueries ==
    {dg.data : dg \in {d \in Datagrams : _parse_dns_query(d.data).ok
                                          /\ _parse_dns_query(d.data).qtype = 1}}

\* the IPv4 addresses of the answers, as the four bytes of a dotted quad
QuadBytes(ip) ==
    CASE ip = "93.184.216.34" -> <<93, 184, 216, 34>>
      [] ip = "10.0.0.1" -> <<10, 0, 0, 1>>
      [] OTHER -> <<>>

\* one A record per address: pointer to the name, type 1, class 1, TTL 300 as
\* four bytes (0, 0, 1, 44), RDLENGTH 4, and the address
RECURSIVE ExpectedARecords(_)
ExpectedARecords(ips) ==
    IF ips = <<>> THEN <<>>
    ELSE <<192, 12, 0, 1, 0, 1, 0, 0, 1, 44, 0, 4>> \o QuadBytes(Head(ips))
         \o ExpectedARecords(Tail(ips))

SentARecords(u) ==
    /\ d_units[u].st = "sent"
    /\ d_units[u].ips # <<>>
    /\ Len(d_units[u].out) = 1
    /\ d_units[u].out[1].to = d_units[u].addr
    /\ LET p == d_units[u].out[1].payload
           n == Len(d_units[u].data)
       IN SubSeq(p, n + 1, Len(p)) = ExpectedARecords(d_units[u].ips)

(***************************************************************************)
(* C3: a query whose record type is neither A (1) nor AAAA (28) never      *)
(* causes a response datagram to be sent, whichever backend is active.     *)
(* Under DoH the code sends one whenever the provider returns entries of   *)
(* the asked type, so this statement is violated.                          *)
(***************************************************************************)
C3_OnlyAddressTypesAnswered ==
    \A u \in Units : d_units[u].out # <<>> => QType(u) \in {1, 28}

(***************************************************************************)
(* C6: a datagram that fails to parse causes no backend call and no        *)
(* response, and a datagram whose backend result is None causes no         *)
(* outbound datagram.                                                      *)
(***************************************************************************)
C6_DropsSilently ==
    \A u \in Units :
        /\ (d_units[u].st \notin {"free", "spawned"} /\ ~Parses(u)) =>
               (d_units[u].backend = "none" /\ d_units[u].out = <<>> /\ d_units[u].st = "dropped")
        /\ d_units[u].res = "none" => (d_units[u].out = <<>> /\ d_units[u].st = "dropped")

C6_Witness ==
    /\ d_units[1].data = QueryCompressed /\ d_units[1].st = "dropped"
    /\ d_units[1].backend = "none"
    /\ d_units[2].data = QueryAbComAAAA /\ d_units[2].st = "dropped"
    /\ d_units[2].backend = "doh" /\ d_units[2].res = "none"
    /\ \A u \in Units : d_units[u].out = <<>>

(***************************************************************************)
(* C7: every received datagram that parses as a type-1 query leads to a    *)
(* response holding one A record per address (TTL 300, the address as      *)
(* RDATA), unless its backend returned None or the send failed (as it does *)
(* once the server is stopped).                                            *)
(***************************************************************************)
C7_TypeAAnswered ==
    \A u \in Units :
        (d_units[u].st = "spawned" /\ d_units[u].data \in TypeAQueries)
            ~> \/ SentARecords(u)
               \/ d_units[u].st = "error"
               \/ (d_units[u].st = "dropped" /\ d_units[u].res = "none")

C7_Witness ==
    /\ d_units[1].data = QueryExampleComA
    /\ d_units[1].st = "sent"
    /\ d_units[1].ips = <<"93.184.216.34">>
    /\ d_units[1].out = << [to |-> "client1", sock |-> 1,
                            payload |-> <<18, 52, 129, 0, 0, 1, 0, 1, 0, 0, 0, 0>>
                                        \o L_example \o L_com \o <<0, 0, 1, 0, 1>>
                                        \o <<192, 12, 0, 1, 0, 1, 0, 0, 1, 44, 0, 4, 93, 184, 216, 34>>] >>

(***************************************************************************)
(* C8: an error in the processing of one datagram (a backend exception, a  *)
(* failed send) ends that unit only: the step leaves every listener loop,  *)
(* the run flag, the sockets and the other units as they were.             *)
(***************************************************************************)
UnitEnds(u) ==
    /\ d_units[u].st \notin {"error", "dropped"}
    /\ d_units'[u].st \in {"error", "dropped"}

C8_ErrorEndsOnlyUnit ==
    [][\A u \in Units :
          UnitEnds(u) =>
              /\ d_loops' = d_loops
              /\ d_running' = d_running
              /\ d_open' = d_open /\ d_sock' = d_sock
              /\ \A v \in Units \ {u} : d_units'[v] = d_units[v]]_vars

\* a unit has ended in its except clause, and a datagram received after that has
\* been answered while the listener is still receiving
C8_Witness ==
    /\ d_units[1].st = "error"
    /\ d_units[2].st = "sent" /\ d_units[2].late
    /\ d_running
    /\ \E l \in Socks : d_loops[l].pc = "recv" /\ d_loops[l].sock \in d_open

(***************************************************************************)
(* Properties of the padding engine.                                       *)
(***************************************************************************)
\* a step in which the intercept thread takes a packet through _process_packet
Processes == p_thread.pc = "recv" /\ p_thread'.pc \in {"padding", "forward"}
\* the step from line 324 to the return of _process_packet
Counts == p_thread.pc = "padding" /\ p_thread'.pc = "delay"

(***************************************************************************)
(* C9: while the engine is running, an exception in one cycle ends none of *)
(* the loops: the dummy-traffic loop, the timing loop and the interception *)
(* loop each stay in being. The Windows interception loop leaves through   *)
(* the break of its except clause, so this statement is violated.          *)
(***************************************************************************)
C9_LoopsSurviveCycleErrors ==
    [][(p_running /\ p_running') =>
          /\ \A g \in Gens, t \in TaskNames :
                 Alive(p_tasks[g][t]) => p_tasks'[g][t].pc # "done"
          /\ InLoop(p_thread) => p_thread'.pc # "done"]_vars

(***************************************************************************)
(* C10: _process_packet leaves a payload of at least the target size as it *)
(* is, with packets_padded and bytes_added unchanged; a shorter payload is *)
(* extended to exactly the target size with the original bytes as prefix,  *)
(* packets_padded goes up by 1 and bytes_added by the shortfall.           *)
(***************************************************************************)
C10_PadsOnlyBelowTarget ==
    [][/\ Processes =>
             LET data == p_thread'.pkt
                 ret == p_thread'.mod
             IN IF Len(data) >= target_packet_size
                THEN /\ ret = None
                     /\ p_stats'.packets_padded = p_stats.packets_padded
                     /\ p_stats'.bytes_added = p_stats.bytes_added
                ELSE /\ ret.some
                     /\ Len(ret.data) = target_packet_size
                     /\ SubSeq(ret.data, 1, Len(data)) = data
                     /\ p_stats'.packets_padded = p_stats.packets_padded + 1
       /\ Counts =>
             /\ p_thread'.mod = p_thread.mod
             /\ p_stats'.packets_padded = p_stats.packets_padded
             /\ p_stats'.bytes_added =
                    p_stats.bytes_added + (target_packet_size - Len(p_thread.pkt))]_vars

\* a payload one byte short has been padded, and a payload of exactly the target
\* size is being handed on as it came
C10_Witness ==
    /\ p_thread.pc = "forward"
    /\ Len(p_thread.pkt) = target_packet_size
    /\ p_thread.mod = None
    /\ p_stats.packets_padded = 1
    /\ p_stats.bytes_added = 1

(***************************************************************************)
(* Properties of the DNS service's life cycle.                             *)
(***************************************************************************)
\* a step that is a start call ending as d_last' says
StartEnds(raised) == d_last' # d_last /\ d_last'.raised = raised

(***************************************************************************)
(* C14: start_doh with a provider name that is not in the registry raises  *)
(* and changes nothing: provider, run flag, session, socket and listener   *)
(* tasks stay as they were; a start_doh with a known provider that follows *)
(* it is possible and succeeds.                                            *)
(***************************************************************************)
C14_UnknownProviderFailsFast ==
    /\ [][StartEnds("ValueError") =>
             UNCHANGED <<d_provider, d_running, d_session, d_sock, d_open, d_loops,
                         d_tor_mode, d_proxy, d_units>>]_vars
    /\ [][(d_last.raised = "ValueError" /\ d_last'.call = "start_doh" /\ StartEnds("none")) =>
             /\ d_running'
             /\ d_provider' \in doh_servers
             /\ d_session' = "open"
             /\ d_sock' > 0 /\ d_sock' \in d_open'
             /\ d_loops'[d_sock'].pc = "ready"]_vars
    /\ [](d_last.raised = "ValueError" /\ d_call = "idle" /\ SocketsMade < MaxSockets =>
             ENABLED StartDoh("google", "ok"))

\* the first call on a new handler named an unknown provider
C14_Witness ==
    /\ d_last = [call |-> "start_doh", raised |-> "ValueError"]
    /\ d_provider = "cloudflare"
    /\ ~d_running
    /\ d_session = "none"
    /\ d_sock = 0

(***************************************************************************)
(* C15: when bind() of the listening socket fails, the start call ends     *)
(* with that error; the run flag is not set and no listener task is        *)
(* created.                                                                *)
(***************************************************************************)
C15_BindFailureAborts ==
    [][StartEnds("OSError") =>
          /\ d_running' = d_running
          /\ d_loops' = d_loops
          /\ d_sock' = Unbound]_vars

C15_Witness ==
    /\ d_last.raised = "OSError"
    /\ ~d_running
    /\ \A l \in Socks : d_loops[l].pc = "none"
    /\ d_sock = Unbound

(***************************************************************************)
(* C17: a query handled when the latest start call was start_doh or        *)
(* start_doh_with_proxy, and succeeded, is resolved through DoH and never  *)
(* through the system delegate. start_tor_dns sets tor_mode and nothing    *)
(* ever clears it, so this statement is violated.                          *)
(***************************************************************************)
C17_DelegateOnlyInTorMode ==
    [][\A u \in Units :
          (/\ d_units[u].st = "spawned"
           /\ d_units'[u].st # "spawned"
           /\ d_last.call \in {"start_doh", "start_doh_with_proxy"}
           /\ d_last.raised = "none")
          => d_units'[u].backend # "tor"]_vars

(***************************************************************************)
(* C16: one call of _resolve_via_doh raises nothing and makes at most one  *)
(* HTTP request. It returns None when there is no session, on a network    *)
(* error, on a status other than 200, on a body that is not JSON and when  *)
(* no entry of the "Answer" array has the requested type; otherwise it     *)
(* returns the data fields of exactly the entries of that type, in the     *)
(* array's order.                                                          *)
(***************************************************************************)
MatchingEntries(reply, query_type) ==
    SelectSeq(reply.answer, LAMBDA e : e.type = query_type)

ExpectedResolve ==
    LET reply == r_in.reply
        matching == MatchingEntries(reply, r_in.query_type)
    IN IF \/ r_in.session = "none"
          \/ reply.kind \in {"error", "badjson"}
          \/ reply.status # 200
          \/ matching = <<>>
       THEN None
       ELSE Some([i \in 1..Len(matching) |-> matching[i].data])

C16_ResolveViaDoh ==
    /\ r_out.raised = "none"
    /\ r_out.reqs <= 1
    /\ r_pc = "done" => r_out.result = ExpectedResolve

\* a call that returned one of two entries: the other was of another type
C16_Witness ==
    /\ r_pc = "done"
    /\ r_out.reqs = 1
    /\ Len(r_in.reply.answer) = 2
    /\ r_out.result.some
    /\ Len(r_out.result.data) = 1

(***************************************************************************)
(* Properties of the padding engine's life cycle and statistics.           *)
(***************************************************************************)
\* stop() has returned and no start has followed
Stopped == p_call = "idle" /\ ~p_running

\* a step that is a call of start or start_advanced
StartCalled == p_starts' = p_starts + 1

Shortfalls == { target_packet_size - n : n \in {m \in PayloadLens : m < target_packet_size} }

PaddedSums(k) ==
    LET RECURSIVE sums(_)
        sums(i) == IF i = 0 THEN {0} ELSE { a + d : a \in sums(i - 1), d \in Shortfalls }
    IN sums(k)

C12_SnapshotNeverTorn ==
    [][(p_snap' # p_snap /\ p_snap'.val = p_stats) =>
          p_snap'.val.bytes_added \in PaddedSums(p_snap'.val.packets_padded)]_vars

(***************************************************************************)
(* C13: get_stats changes nothing of the engine: the counters, the run     *)
(* flag, the tasks and the thread are as before, and what it returns holds *)
(* the counters' values; a later write to the returned dictionary leaves   *)
(* the engine's counters as they are.                                      *)
(***************************************************************************)
C13_GetStatsHasNoSideEffects ==
    [][p_snap' # p_snap =>
          /\ UNCHANGED <<p_stats, p_running, p_advanced, p_call, p_tasks, p_thread,
                         p_handle, p_starts>>
          /\ ~p_snap.taken => p_snap'.val = p_stats]_vars

\* bytes_added without packets_padded is in no dictionary get_stats returns:
\* the reader has written to its snapshot, and the engine's counter stands
C13_Witness ==
    /\ p_snap.taken
    /\ p_snap.val.packets_padded = 0
    /\ p_snap.val.bytes_added > 0
    /\ p_stats.packets_padded > 0

(***************************************************************************)
(* C18: a start or start_advanced call that starts no interception (there  *)
(* is no library for the platform, or creating the interception object     *)
(* fails) returns normally: the engine is running and the call's           *)
(* dummy-traffic task and timing task are created.                         *)
(***************************************************************************)
C18_StartsWithoutInterception ==
    [][(StartCalled /\ p_thread' = p_thread) =>
          /\ p_running'
          /\ p_call' = "idle"
          /\ \A t \in TaskNames : p_tasks'[p_starts'][t].pc = "ready"]_vars

\* on Linux the queue could not be bound: no thread, and the advanced dummy
\* traffic flows
C18_Witness ==
    /\ p_platform = "Linux"
    /\ p_starts = 1
    /\ p_running
    /\ p_thread.pc = "none"
    /\ Tracked.dummy.adv /\ Alive(Tracked.dummy)
    /\ Alive(Tracked.timing)
    /\ p_stats.dummy_packets_sent > 0

(***************************************************************************)
(* C19: once stop() has returned, the dummy-traffic task and the timing    *)
(* task of the latest start have ended, and dummy_packets_sent stays as it *)
(* is until the next start. The tasks of a start that was followed by      *)
(* another start without a stop are not known to stop(), so the second     *)
(* part is violated.                                                       *)
(***************************************************************************)
C19_StopEndsPeriodicTasks ==
    /\ [](Stopped => \A t \in TaskNames : ~Alive(Tracked[t]))
    /\ [][(Stopped /\ Stopped') =>
             p_stats'.dummy_packets_sent = p_stats.dummy_packets_sent]_vars

(***************************************************************************)
(* C20: once stop() has returned, the intercept thread has ended and       *)
(* packets_padded, bytes_added and packets_delayed stay as they are. On    *)
(* Linux stop() never reaches nfqueue.unbind(), so this statement is       *)
(* violated.                                                               *)
(***************************************************************************)
C20_StopEndsInterception ==
    /\ [](Stopped => p_thread.pc \in {"none", "done"})
    /\ [][(Stopped /\ Stopped') =>
             /\ p_stats'.packets_padded = p_stats.packets_padded
             /\ p_stats'.bytes_added = p_stats.bytes_added
             /\ p_stats'.packets_delayed = p_stats.packets_delayed]_vars

(***************************************************************************)
(* C21: after stop() is called on the DNS service the run flag is false,   *)
(* the socket is closed when stop() has returned, no datagram is received  *)
(* and handed to a processing unit after the call, and every listener loop *)
(* eventually terminates.                                                  *)
(***************************************************************************)
\* stop() has been called on a service that was started
StopCalled == SocketsMade > 0 /\ ~d_running

\* the listener takes a datagram and creates a unit for it
Receives == \E l \in Socks, u \in Units, dg \in Datagrams : LoopRecv(l, u, dg)

ListenersEnded == \A l \in Socks : d_loops[l].pc \in {"none", "done"}

C21_FlagAndSocket ==
    /\ [](d_call = "stopping" => ~d_running)
    /\ [][(StopBegin \/ StopFinish) /\ d_call' = "idle" =>
              ~d_running' /\ d_sock \notin d_open']_vars

C21_NothingReceivedAfterStop == [][Receives => ~StopCalled]_vars

C21_ListenerTerminates == StopCalled ~> ListenersEnded

C21_StopEndsListener ==
    /\ C21_FlagAndSocket
    /\ C21_NothingReceivedAfterStop
    /\ C21_ListenerTerminates

(***************************************************************************)
(* C22: however stop() interleaves with the units that are mid-flight, a   *)
(* unit ends by its send, by dropping the query, or in its own except      *)
(* clause, never with an exception that leaves it; a unit that resumes     *)
(* when the session and the socket are closed sends nothing.               *)
(***************************************************************************)
UnitStates == {"free", "spawned", "waiting", "dropped", "sent", "error"}

\* stop() has closed the session and the socket, and nothing has reopened them
AllClosed == d_session # "open" /\ d_sock \notin d_open

C22_UnitsEndQuietly ==
    /\ [](\A u \in Units : d_units[u].st \in UnitStates)
    /\ [][\A u \in Units :
             UnitStep(u) /\ AllClosed =>
                 /\ d_units'[u].out = d_units[u].out
                 /\ d_units'[u].st \in {"waiting", "dropped", "error"}
                 /\ d_units[u].st = "waiting" => d_units'[u].st # "waiting"
                 /\ d_loops' = d_loops /\ d_open' = d_open /\ d_call' = d_call]_vars
    /\ [][\A u \in Units :
             UnitStep(u) /\ d_units'[u].st = "sent" =>
                 d_sock \in d_open /\ Len(d_units'[u].out) = Len(d_units[u].out) + 1]_vars

\* stop() has returned; one unit that had its answer ended in its except clause
\* at the send, the other is still waiting for its resolution
C22_Witness ==
    /\ StopCalled /\ d_call = "idle" /\ AllClosed
    /\ d_units[1].st = "error" /\ Truthy(d_units[1].ips)
    /\ d_units[2].st = "waiting"

(***************************************************************************)
(* C28: over any sequence of start and stop calls on one handler at most   *)
(* one listener loop is active at a time, and a loop receives only on the  *)
(* socket of the start call that created it.                               *)
(***************************************************************************)
ActiveLoops == {l \in Socks : d_loops[l].pc \notin {"none", "done"}}

C28_OneListener ==
    /\ Cardinality(ActiveLoops) <= 1
    /\ \A l \in Socks : d_loops[l].pc = "recv" => d_loops[l].sock = l

(***************************************************************************)
(* C29: a processing unit never blocks the listener. Whatever the units    *)
(* under way are waiting for, a listener at sock_recvfrom on its open      *)
(* socket can take the next datagram and start a unit for it, and every    *)
(* waiting unit can complete, whichever was started first.                 *)
(***************************************************************************)
\* a listener is at sock_recvfrom on an open socket (and the model has a unit
\* left for the datagram)
Listening ==
    /\ \E l \in Socks : d_loops[l].pc = "recv" /\ d_loops[l].sock \in d_open
    /\ \E u \in Units : d_units[u].st = "free"

C29_ListenerNeverBlocked ==
    /\ Listening => ENABLED Receives
    /\ \A u \in Units : d_units[u].st \in {"spawned", "waiting"} => ENABLED UnitStep(u)

\* the first unit is still waiting for its resolution; the listener has taken a
\* second datagram meanwhile, its unit has sent its response, and the listener
\* is receiving again
C29_Witness ==
    /\ d_units[1].st = "waiting"
    /\ d_units[2].st = "sent"
    /\ \E l \in Socks : d_loops[l].pc = "recv" /\ d_loops[l].sock \in d_open

(***************************************************************************)
(* C30: with queries of several clients in flight, every response that is  *)
(* sent goes to the address its own query came from and starts with that   *)
(* query's transaction ID and carries its question bytes; no datagram is   *)
(* answered twice.                                                         *)
(***************************************************************************)
\* bytes 13.. of a datagram: the question section as it was received
QuestionBytes(data) == SubSeq(data, 13, Len(data))

C30_ResponsesGoBack ==
    \A u \in Units :
        /\ Len(d_units[u].out) <= 1
        /\ d_units[u].st # "sent" => d_units[u].out = <<>>
        /\ \A i \in 1..Len(d_units[u].out) :
              LET o == d_units[u].out[i] IN
              /\ o.to = d_units[u].addr
              /\ Len(o.payload) >= Len(d_units[u].data)
              /\ SubSeq(o.payload, 1, 2) = SubSeq(d_units[u].data, 1, 2)
              /\ SubSeq(o.payload, 13, Len(d_units[u].data)) = QuestionBytes(d_units[u].data)

\* the queries of two clients, with different transaction IDs, have both been
\* answered, each at its own address
C30_Witness ==
    /\ d_units[1].st = "sent" /\ d_units[2].st = "sent"
    /\ d_units[1].addr # d_units[2].addr
    /\ SubSeq(d_units[1].data, 1, 2) # SubSeq(d_units[2].data, 1, 2)
    /\ d_units[1].out[1].to = d_units[1].addr
    /\ d_units[2].out[1].to = d_units[2].addr

(***************************************************************************)
(* C25: _build_dns_response with an empty answer list, on a query that has *)
(* its 12-byte header, sets the response flag, writes an answer count of 0 *)
(* and returns as many bytes as the query has.                             *)
(***************************************************************************)
QRSet(b) == (b[3] \div 128) % 2 = 1

C25_EmptyAnswerList ==
    (c_pc = "built" /\ c_ips = <<>> /\ Len(c_data) >= 12) =>
        /\ Len(c_resp) = Len(c_data)
        /\ QRSet(c_resp)
        /\ c_resp[7] = 0 /\ c_resp[8] = 0

\* a query whose bytes 6-7 were not zero, answered with no address
C25_Witness ==
    /\ c_pc = "built" /\ c_ips = <<>>
    /\ c_data = <<255, 0, 129, 128, 0, 1, 0, 9, 0, 0, 0, 0>> \o L_Ab \o <<0, 0, 28, 0, 1>>
    /\ c_resp = <<255, 0, 129, 128, 0, 1, 0, 0, 0, 0, 0, 0>> \o L_Ab \o <<0, 0, 28, 0, 1>>

(***************************************************************************)
(* C26: _build_dns_response leaves every byte of the copied query as it    *)
(* was except bit 0x80 of byte 2 and bytes 6-7, and what it appends is,    *)
(* for each answer it encodes and in their order, the pointer 0xC0 0x0C,  *)
(* the type, class 1, TTL 300, RDLENGTH 4 (A) or 16 (AAAA) and the        *)
(* address bytes: 16 more bytes per A record, 28 per AAAA record.         *)
(***************************************************************************)
\* the address bytes of the literals that are of the record type asked for
RData(ip, query_type) ==
    CASE query_type = 1 /\ ip = "93.184.216.34" -> <<93, 184, 216, 34>>
      [] query_type = 1 /\ ip = "10.0.0.1" -> <<10, 0, 0, 1>>
      [] query_type = 28 /\ ip = "::1" -> <<0, 0, 0, 0, 0, 0, 0, 0, 0, 0, 0, 0, 0, 0, 0, 1>>
      [] query_type = 28 /\ ip = "2001:db8::2" ->
             <<32, 1, 13, 184, 0, 0, 0, 0, 0, 0, 0, 0, 0, 0, 0, 2>>
      [] OTHER -> <<>>

Encodes(ip, query_type) == RData(ip, query_type) # <<>>

\* the answers of a list that are encoded, in order
RECURSIVE Encoded(_, _)
Encoded(ips, query_type) ==
    IF ips = <<>> THEN <<>>
    ELSE (IF Encodes(Head(ips), query_type) THEN <<Head(ips)>> ELSE <<>>)
         \o Encoded(Tail(ips), query_type)

\* pointer, type, class 1, TTL 300 = (0, 0, 1, 44), RDLENGTH, address
WireRecord(ip, query_type) ==
    <<192, 12, 0, query_type, 0, 1, 0, 0, 1, 44, 0, IF query_type = 1 THEN 4 ELSE 16>>
    \o RData(ip, query_type)

RECURSIVE WireRecords(_, _)
WireRecords(ips, query_type) ==
    IF ips = <<>> THEN <<>>
    ELSE WireRecord(Head(ips), query_type) \o WireRecords(Tail(ips), query_type)

\* the offsets (from 1) of the copied query that the function may change
Rewritten == {3, 7, 8}

C26_FrameAndRecords ==
    (c_pc = "built" /\ Len(c_data) >= 12) =>
        LET enc == Encoded(c_ips, c_type) IN
        /\ Len(c_resp) >= Len(c_data)
        /\ \A i \in (1..Len(c_data)) \ Rewritten : c_resp[i] = c_data[i]
        /\ c_resp[3] % 128 = c_data[3] % 128
        /\ SubSeq(c_resp, Len(c_data) + 1, Len(c_resp)) = WireRecords(enc, c_type)
        /\ Len(c_resp) = Len(c_data) + (IF c_type = 1 THEN 16 ELSE 28) * Len(enc)

\* two AAAA answers appended to a query whose flag and count were already set
C26_Witness ==
    /\ c_pc = "built" /\ c_type = 28
    /\ c_ips = <<"::1", "2001:db8::2">>
    /\ c_data = <<255, 0, 129, 128, 0, 1, 0, 9, 0, 0, 0, 0>> \o L_Ab \o <<0, 0, 28, 0, 1>>
    /\ Len(c_resp) = Len(c_data) + 56
    /\ c_resp[4] = 128 /\ c_resp[6] = 1 /\ c_resp[8] = 2

(***************************************************************************)
(* C27: when an answer cannot be encoded (its literal is not an address of *)
(* the record type), _build_dns_response skips that answer only: the       *)
(* result still has the response flag set and holds the records of all the *)
(* other answers, in the order of the list.                                *)
(***************************************************************************)
SomeSkipped == \E i \in 1..Len(c_ips) : ~Encodes(c_ips[i], c_type)

\* the list without the answers that cannot be encoded
Others == SelectSeq(c_ips, LAMBDA ip : Encodes(ip, c_type))

C27_SkipsOnlyBadAnswer ==
    (c_pc = "built" /\ Len(c_data) >= 12 /\ c_type \in {1, 28} /\ SomeSkipped) =>
        /\ QRSet(c_resp)
        /\ SubSeq(c_resp, 1, 2) = SubSeq(c_data, 1, 2)
        /\ SubSeq(c_resp, Len(c_data) + 1, Len(c_resp)) = WireRecords(Others, c_type)

\* an unparseable literal before an address: one record, that of the address
C27_Witness ==
    /\ c_pc = "built" /\ c_type = 1 /\ Len(c_data) >= 12
    /\ c_ips = <<"not-an-ip", "10.0.0.1">>
    /\ QRSet(c_resp)
    /\ SubSeq(c_resp, Len(c_data) + 1, Len(c_resp))
           = <<192, 12, 0, 1, 0, 1, 0, 0, 1, 44, 0, 4, 10, 0, 0, 1>>

(***************************************************************************)
(* C23: with threshold T and window W, more than T checks whose times all  *)
(* lie within W seconds (the first less than W seconds before the last)    *)
(* make the last check return true; T + 1 checks spread evenly across      *)
(* W + 1 seconds make the last check return false.                         *)
(***************************************************************************)
Checks == Len(b_calls)

\* the last k checks all lie within W seconds: any two of them are less than W
\* seconds apart
LastWithinWindow(k) ==
    /\ k <= Checks
    /\ \A i, j \in (Checks - k + 1)..Checks : b_calls[i] - b_calls[j] < WindowTicks(b_cfg)

\* the checks so far are T + 1 checks at equal distances over W + 1 seconds: the
\* distance is (W + 1) / T seconds, that is W + 1 ticks
SpreadOverWindowPlusOne ==
    /\ Checks = b_cfg.threshold + 1
    /\ \A i \in 1..(Checks - 1) : b_calls[i + 1] - b_calls[i] = b_cfg.window_size + 1

C23_WitnessSpread ==
    /\ b_cfg = DetDefault
    /\ SpreadOverWindowPlusOne
    /\ b_calls[6] - b_calls[1] = 55
    /\ ~b_ret

(***************************************************************************)
(* C24: the probabilities of the pattern library sum to exactly 1.0, the   *)
(* pattern selected for a draw r is the first whose cumulative probability *)
(* is at least r, each pattern's interval is as wide as its probability,   *)
(* and the fall-back to the first pattern is never reached.                *)
(* The sums are those of the loop, in double precision: the last one is    *)
(* 1 - 2^-53 and the intervals are up to 2^-54 narrower than the           *)
(* probabilities, so the statement is violated as it stands; with the      *)
(* sums as they are it holds.                                              *)
(***************************************************************************)
\* the double 1.0, and the largest double below it
DblOne == Dbl(Half28, 0)
DblBelowOne == Dbl(Half28 - 1, Half28 - 8)

\* the running sum after the first k patterns, as the loop computes it
RECURSIVE CumulativeProb(_)
CumulativeProb(k) ==
    IF k = 0 THEN DblZero
    ELSE DblAdd(CumulativeProb(k - 1), cover_traffic_patterns[k].probability)

Patterns == 1..Len(cover_traffic_patterns)

\* the first pattern whose cumulative probability is at least r
FirstAtLeast(r) ==
    CHOOSE k \in Patterns :
        /\ DblLe(r, CumulativeProb(k))
        /\ \A j \in Patterns : j < k => ~DblLe(r, CumulativeProb(j))

\* width of pattern k's interval minus its probability, in units of 2^-56
WidthError(k) ==
    LET a == CumulativeProb(k)
        b == CumulativeProb(k - 1)
        p == cover_traffic_patterns[k].probability
    IN (a.hi - b.hi - p.hi) * Half28 + (a.lo - b.lo - p.lo)

SelectedByCumulative ==
    /\ ~s_pick.fallback
    /\ \E k \in Patterns : DblLe(s_rand, CumulativeProb(k))
    /\ s_pick.name = cover_traffic_patterns[FirstAtLeast(s_rand)].name

C24_SumsToOne ==
    s_pc = "done" =>
        /\ CumulativeProb(Len(cover_traffic_patterns)) = DblOne
        /\ \A k \in Patterns : WidthError(k) = 0
        /\ SelectedByCumulative

C24_SumsToBelowOne ==
    s_pc = "done" =>
        /\ CumulativeProb(Len(cover_traffic_patterns)) = DblBelowOne
        /\ \A k \in Patterns : WidthError(k) \in (0 - 4)..0
        /\ SelectedByCumulative

\* the largest draw, 1 - 2^-53, selects the last pattern
C24_Witness ==
    /\ s_pc = "done"
    /\ s_rand = DblBelowOne
    /\ s_pick.name = "background_updates"
    /\ ~s_pick.fallback

(***************************************************************************)
(* C31: after every check at time now the retained window holds, in the    *)
(* order of arrival, exactly the times t of the checks so far with         *)
(* now - W < t <= now, the current time being the last of them (a time     *)
(* exactly W old is purged), and the value returned is (number of retained *)
(* times > threshold).                                                     *)
(* The code has the lower test only; a time later than now stays in the    *)
(* window when the clock has been set back, so the statement is violated.  *)
(***************************************************************************)
InWindow(t) == b_now - WindowTicks(b_cfg) < t /\ t <= b_now

C31_WindowContents ==
    Checks >= 1 =>
        /\ b_now = b_calls[Checks]
        /\ b_times = SelectSeq(b_calls, InWindow)
        /\ Len(b_times) >= 1 /\ b_times[Len(b_times)] = b_now
        /\ b_ret = (Len(b_times) > b_cfg.threshold)

\* time.time() has not gone back between two checks
ClockOrdered == \A i \in 1..(Checks - 1) : b_calls[i] <= b_calls[i + 1]

\* the same statement for the checks of a clock that never went back
C31_WindowOfOrderedClock == ClockOrdered => C31_WindowContents

(***************************************************************************)
(* C32: in advanced mode every dummy packet of a burst has a size from the *)
(* size set of the pattern selected for the burst and a destination from   *)
(* the destination list of that same pattern, and the packets attempted in *)
(* one burst are never more than the upper end of the pattern's burst      *)
(* range, and not fewer than its lower end when the burst is over (the     *)
(* task at the sleep after it) unless the engine was stopped.              *)
(***************************************************************************)
C32_BurstOfOnePattern ==
    a_burst.attempted >= 1 =>
        LET pattern == PatternNamed(a_burst.pattern) IN
        /\ a_burst.size \in pattern.packet_sizes
        /\ a_burst.destination \in _select_dummy_destination(a_burst.pattern)
        /\ a_burst.attempted <= pattern.burst_size[2]
        /\ (a_pc = "pause" /\ a_running) => a_burst.attempted >= pattern.burst_size[1]

\* a streaming burst of the full 25 packets is over
C32_Witness ==
    /\ a_pc = "pause" /\ a_running
    /\ a_burst.pattern = "video_streaming" /\ a_burst.attempted = 25
    /\ a_burst.size = 1500 /\ a_burst.destination = <<"twitch.tv", 443>>

\* a download burst of 100 packets was cut short by a stop of the engine
C32_WitnessStopped ==
    /\ a_pc = "pause" /\ ~a_running
    /\ a_burst.pattern = "file_download" /\ a_burst.burst_size = 100
    /\ a_burst.attempted = 2

(***************************************************************************)
(* C33: over any sequence of start, start_advanced and stop calls at most  *)
(* one dummy-traffic task and at most one timing task are alive, and every *)
(* task the engine created is the one it tracks or has ended. A start on a *)
(* running engine overwrites the two task attributes without cancelling    *)
(* the tasks they named, so the statement is violated.                     *)
(***************************************************************************)
AliveTasks(t) == {g \in Gens : Alive(p_tasks[g][t])}

C33_OneTaskOfEachKind ==
    \A t \in TaskNames :
        /\ Cardinality(AliveTasks(t)) <= 1
        /\ \A g \in AliveTasks(t) : g = p_starts

(***************************************************************************)
(* C34: an engine started with start() runs in basic mode whatever went    *)
(* before: when start() returns the advanced-mode flag is false. Only      *)
(* start_advanced writes the flag, and it writes True, so a start() after  *)
(* a start_advanced finds it set and leaves it set: the statement is       *)
(* violated.                                                               *)
(***************************************************************************)
C34_StartIsBasic ==
    [][(\E interceptOk \in BOOLEAN : start(interceptOk)) => ~p_advanced']_vars

(***************************************************************************)
(* C35: a DoH request carries the proxy setting only when the latest start *)
(* call was start_doh_with_proxy. The request is built in the step in      *)
(* which the unit reaches the await of session.get (lines 347-353), from   *)
(* self.proxy_settings as it is then. Nothing clears that attribute, so    *)
(* after start_doh_with_proxy followed by start_doh the statement is       *)
(* violated.                                                               *)
(***************************************************************************)
\* unit u sends its DoH request in this step
SendsDohRequest(u) ==
    UnitStart(u) /\ d_units'[u].st = "waiting" /\ d_units'[u].backend = "doh"

C35_ProxyOnlyAfterProxyStart ==
    [][\A u \in Units :
          (SendsDohRequest(u) /\ d_proxy) => d_last.call = "start_doh_with_proxy"]_vars

(***************************************************************************)
(* C36: if a DNS start call raises, then afterwards the running flag is    *)
(* false, the call has left no listener task, no socket of the call stays  *)
(* bound and no HTTP session of the call stays open. The start calls have  *)
(* no clean-up of their own: what was created before the failing step      *)
(* stays, so the statement is violated.                                    *)
(***************************************************************************)
\* a step that is a start call that raises
StartRaises ==
    /\ \/ \E provider \in Providers, outcome \in Outcomes : StartDoh(provider, outcome)
       \/ \E outcome \in Outcomes : StartDohWithProxy(outcome)
       \/ \E outcome \in Outcomes : StartTorDns(outcome)
    /\ d_last'.raised # "none"

C36_FlagDown == [][StartRaises => ~d_running']_vars

C36_NoListenerLeft == [][StartRaises => d_loops' = d_loops]_vars

\* a socket whose bind failed is open but not bound
C36_NoSocketLeft == [][StartRaises => (d_open' \ d_open) \subseteq {Unbound}]_vars

\* start_tor_dns and a start_doh that raises ValueError create no session
C36_NoSessionLeft ==
    [][(StartRaises /\ d_last'.call # "start_tor_dns" /\ d_last'.raised # "ValueError") =>
          d_session' = "none"]_vars

C36_FailedStartLeavesNothing ==
    /\ C36_FlagDown
    /\ C36_NoListenerLeft
    /\ C36_NoSocketLeft
    /\ C36_NoSessionLeft

(***************************************************************************)
(* C37: every intercepted packet gets exactly one verdict: the step by     *)
(* which the intercept thread lets go of the packet it holds is the step   *)
(* that forwards it, padded or as it came, also when a step raises. On     *)
(* Windows a send() that raises leaves the loop by the break of line 236   *)
(* and the packet is never sent, so the statement is violated.             *)
(***************************************************************************)
\* the thread has taken a packet and not yet given its verdict
Holding(th) == th.pc \in {"padding", "delay", "forward"}

\* the packet goes on: send() returns, or accept() is called (in the try or in
\* the except clause)
Forwards == WinSend(TRUE) \/ \E ok \in BOOLEAN : LinuxAccept(ok)

C37_ExactlyOneVerdict ==
    [][(Holding(p_thread) /\ ~Holding(p_thread')) => Forwards]_vars

\* the same for the accept callback alone
C37_LinuxOneVerdict ==
    [][(p_platform = "Linux" /\ Holding(p_thread) /\ ~Holding(p_thread')) => Forwards]_vars

C39_CountsSuccessfulSends ==
    [][/\ CoverSent(TRUE) => a_sent' = a_sent + 1
       /\ CoverSent(FALSE) =>
              /\ a_sent' = a_sent
              /\ a_sock' = "closed"
              /\ a_pc' \in {"gap", "pause"}
       /\ a_sent' # a_sent => CoverSent(TRUE)]_vars

\* of the first two sends of the task one has failed and one has succeeded
C39_Witness ==
    /\ a_pc = "gap" /\ a_burst.attempted = 2
    /\ a_sent = 1 /\ a_sock = "closed"

====
